---- MODULE Spec2Model ----
(***************************************************************************)
(* cargo-context-lint: a model of the annotation index builder             *)
(* (collector.rs), the call-site matcher (checker.rs), the unattributed    *)
(* detector (unattributed.rs) and the driver that runs the passes          *)
(* (main.rs).                                                              *)
(*                                                                         *)
(* Strings are sequences of one-character strings, so that to_lowercase,   *)
(* contains and the stripping of quotes are computed and not assumed.      *)
(* Option<T> is a sequence of length 0 (None) or 1 (Some).                 *)
(***************************************************************************)
EXTENDS Integers, Sequences, FiniteSets, TLC

VARIABLES
    cli_unattributed,     \* main.rs Cli::unattributed: "deny" or "allow"
    all_files,            \* main.rs run: the enumerated file set, in enumeration order
    pc,                   \* main.rs run: position in run() and main()
    cursor,               \* main.rs run: index of the next file of the running pass
    all_annotated,        \* main.rs run: entries collected by pass 1
    index,                \* the annotation index (run: built at line 170; checker: its field)
    all_double_context,   \* main.rs run: findings of pass 2
    all_unattributed,     \* main.rs run: findings of pass 3
    error,                \* main.rs run: the Err it returned, None if none
    reported,             \* main.rs run: the two lists handed to the reporter, None if none
    exit_code,            \* main.rs main: the process status, None while running
    syntax,               \* the parsed unit a visitor walks (checker/collector/unattributed)
    file_path,            \* the visitor's file_path field
    results,              \* the visitor's results field
    visited               \* whether the visitor has walked syntax

\* The variables of run() and main() other than the index
runVars == << cli_unattributed, all_files, pc, cursor, all_annotated, all_double_context,
              all_unattributed, error, reported, exit_code >>

\* The variables of one visitor
visitorVars == << syntax, file_path, results, visited >>

vars == << runVars, index, visitorVars >>

(***************************************************************************)
(* Strings                                                                 *)
(***************************************************************************)
UpperCase == << "A", "B", "C", "D", "E", "F", "G", "H", "I", "J", "K", "L", "M",
                "N", "O", "P", "Q", "R", "S", "T", "U", "V", "W", "X", "Y", "Z" >>

LowerCase == << "a", "b", "c", "d", "e", "f", "g", "h", "i", "j", "k", "l", "m",
                "n", "o", "p", "q", "r", "s", "t", "u", "v", "w", "x", "y", "z" >>

\* char::to_lowercase on the ASCII range
LowerChar(c) ==
    IF \E i \in 1..Len(UpperCase) : UpperCase[i] = c
    THEN LowerCase[CHOOSE i \in 1..Len(UpperCase) : UpperCase[i] = c]
    ELSE c

\* str::to_lowercase
to_lowercase(s) == [i \in 1..Len(s) |-> LowerChar(s[i])]

\* str::contains(&str)
contains(hay, needle) ==
    \E i \in 0..(Len(hay) - Len(needle)) :
        SubSeq(hay, i + 1, i + Len(needle)) = needle

\* str::starts_with(char) / str::ends_with(char)
starts_with(s, c) == Len(s) > 0 /\ s[1] = c
ends_with(s, c) == Len(s) > 0 /\ s[Len(s)] = c

\* Option<T>
None == << >>
Some(x) == << x >>

(***************************************************************************)
(* Literal tokens.  A literal is kept as its source text (what             *)
(* proc_macro2::Literal::to_string gives back): "..." a string, r"..." a   *)
(* raw string, b"..." a byte string, anything else a number.               *)
(***************************************************************************)
Quote == "\""
Backslash == "\\"

IsCookedStr(repr) == Len(repr) >= 2 /\ starts_with(repr, Quote) /\ ends_with(repr, Quote)
IsRawStr(repr) == Len(repr) >= 3 /\ repr[1] = "r" /\ repr[2] = Quote /\ ends_with(repr, Quote)

\* syn::Lit::Str(_): cooked and raw string literals alike
IsLitStr(repr) == IsCookedStr(repr) \/ IsRawStr(repr)

EscapedChar(c) ==
    CASE c = "n" -> "\n"
      [] c = "t" -> "\t"
      [] OTHER -> c

RECURSIVE Unescape(_)
Unescape(s) ==
    IF s = << >> THEN << >>
    ELSE IF s[1] = Backslash /\ Len(s) >= 2
         THEN << EscapedChar(s[2]) >> \o Unescape(SubSeq(s, 3, Len(s)))
         ELSE << s[1] >> \o Unescape(Tail(s))

\* syn::LitStr::value: the string the literal denotes
LitStrValue(repr) ==
    IF IsRawStr(repr)
    THEN SubSeq(repr, 3, Len(repr) - 1)
    ELSE Unescape(SubSeq(repr, 2, Len(repr) - 1))

(***************************************************************************)
(* Expressions (syn::Expr).  Every node is a record of the same fields:    *)
(*   kind  the Expr variant                                                *)
(*   sub   the one sub-expression the variant owns, if any: the callee of  *)
(*         a Call, the receiver of a MethodCall, the base of Await, the    *)
(*         inner expression of Paren and Try, the body of a Closure        *)
(*   args  the argument list of a Call or MethodCall                       *)
(*   segs  the path segments of a Path or of a Macro's path; the method    *)
(*         identifier of a MethodCall                                      *)
(*   text  the source text of a Lit; the token text of a Macro             *)
(*   line  the line of a MethodCall's method token                         *)
(***************************************************************************)
Node(kind, sub, args, segs, text, line) ==
    [kind |-> kind, sub |-> sub, args |-> args, segs |-> segs, text |-> text, line |-> line]

ExprPath(segs) == Node("Path", << >>, << >>, segs, << >>, 0)
ExprCall(func, args) == Node("Call", << func >>, args, << >>, << >>, 0)
ExprMethodCall(receiver, method, args, line) ==
    Node("MethodCall", << receiver >>, args, << method >>, << >>, line)
ExprAwait(base) == Node("Await", << base >>, << >>, << >>, << >>, 0)
ExprParen(e) == Node("Paren", << e >>, << >>, << >>, << >>, 0)
ExprTry(e) == Node("Try", << e >>, << >>, << >>, << >>, 0)
ExprLit(repr) == Node("Lit", << >>, << >>, << >>, repr, 0)
ExprMacro(path, tokens) == Node("Macro", << >>, << >>, path, tokens, 0)
ExprClosure(body) == Node("Closure", << body >>, << >>, << >>, << >>, 0)
ExprField(base, member) == Node("Field", << base >>, << >>, << member >>, << >>, 0)
ExprBlock(stmts) == Node("Block", stmts, << >>, << >>, << >>, 0)

Last(s) == s[Len(s)]

(***************************************************************************)
(* collector.rs: AnnotatedFunction and the index                           *)
(***************************************************************************)
AnnotatedFunction(name, file, line, context_string, is_method) ==
    [name |-> name, file |-> file, line |-> line,
     context_string |-> context_string, is_method |-> is_method]

\* HashMap::get on AnnotatedFunctions
IndexGet(idx, name) == IF name \in DOMAIN idx THEN Some(idx[name]) ELSE None

\* map.entry(name).or_default().push(entry)
IndexPush(idx, entry) ==
    IF entry.name \in DOMAIN idx
    THEN [idx EXCEPT ![entry.name] = Append(@, entry)]
    ELSE [n \in DOMAIN idx \cup {entry.name} |->
            IF n = entry.name THEN << entry >> ELSE idx[n]]

EmptyIndex == [n \in {} |-> << >>]

RECURSIVE build_index_from(_, _)
build_index_from(map, entries) ==
    IF entries = << >> THEN map
    ELSE build_index_from(IndexPush(map, Head(entries)), Tail(entries))

build_index(entries) == build_index_from(EmptyIndex, entries)

(***************************************************************************)
(* checker.rs                                                              *)
(***************************************************************************)
CommonFunctionNames ==
    { <<"n", "e", "w">>,
      <<"o", "p", "e", "n">>,
      <<"c", "l", "o", "s", "e">>,
      <<"r", "e", "a", "d">>,
      <<"w", "r", "i", "t", "e">>,
      <<"p", "a", "r", "s", "e">>,
      <<"f", "r", "o", "m", "_", "s", "t", "r">>,
      <<"f", "r", "o", "m">>,
      <<"i", "n", "t", "o">>,
      <<"t", "r", "y", "_", "f", "r", "o", "m">>,
      <<"t", "r", "y", "_", "i", "n", "t", "o">>,
      <<"d", "e", "f", "a", "u", "l", "t">>,
      <<"c", "l", "o", "n", "e">>,
      <<"c", "o", "p", "y">>,
      <<"r", "u", "n">>,
      <<"s", "t", "a", "r", "t">>,
      <<"s", "t", "o", "p">>,
      <<"i", "n", "i", "t">>,
      <<"c", "r", "e", "a", "t", "e">>,
      <<"d", "e", "l", "e", "t", "e">>,
      <<"r", "e", "m", "o", "v", "e">>,
      <<"u", "p", "d", "a", "t", "e">>,
      <<"g", "e", "t">>,
      <<"s", "e", "t">>,
      <<"l", "o", "a", "d">>,
      <<"s", "a", "v", "e">>,
      <<"b", "u", "i", "l", "d">>,
      <<"e", "x", "e", "c", "u", "t", "e">>,
      <<"e", "x", "e", "c">>,
      <<"s", "e", "n", "d">>,
      <<"r", "e", "c", "v">>,
      <<"c", "o", "n", "n", "e", "c", "t">>,
      <<"b", "i", "n", "d">>,
      <<"l", "i", "s", "t", "e", "n">>,
      <<"a", "c", "c", "e", "p", "t">>,
      <<"f", "l", "u", "s", "h">>,
      <<"s", "y", "n", "c">>,
      <<"d", "r", "o", "p">>,
      <<"s", "t", "a", "t", "u", "s">>,
      <<"d", "i", "s", "p", "l", "a", "y">>,
      <<"f", "m", "t">> }

is_common_function_name(name) == name \in CommonFunctionNames

S_crate == << "c", "r", "a", "t", "e" >>
S_self == << "s", "e", "l", "f" >>
S_super == << "s", "u", "p", "e", "r" >>
S_context == << "c", "o", "n", "t", "e", "x", "t" >>
S_with_context == << "w", "i", "t", "h", "_", "c", "o", "n", "t", "e", "x", "t" >>
S_format == << "f", "o", "r", "m", "a", "t" >>
S_format_open == << "f", "o", "r", "m", "a", "t", "!", "(" >>
S_complex_expression ==
    << "<", "c", "o", "m", "p", "l", "e", "x", " ",
       "e", "x", "p", "r", "e", "s", "s", "i", "o", "n", ">" >>

\* enum CalleeInfo
FreeFunction(name, path_segments) ==
    [tag |-> "FreeFunction", name |-> name, path_segments |-> path_segments]
Method(name) == [tag |-> "Method", name |-> name, path_segments |-> << >>]

\* path_segments[..len - 1] without crate / self / super
Qualifying(path_segments) ==
    SelectSeq(SubSeq(path_segments, 1, Len(path_segments) - 1),
              LAMBDA s : s # S_crate /\ s # S_self /\ s # S_super)

\* qualifying.iter().any(|seg| def_path_lower.contains(&seg.to_lowercase()))
PathMatches(qualifying, file) ==
    \E i \in 1..Len(qualifying) :
        contains(to_lowercase(file), to_lowercase(qualifying[i]))

\* Faulty variant: the unqualified call of a common name is not rejected
is_plausible_match_unqualified_common(callee, annotated) ==
    IF callee.tag = "FreeFunction"
    THEN LET common == is_common_function_name(callee.name)
             qualifying == Qualifying(callee.path_segments)
         IN  IF Len(callee.path_segments) > 1 /\ qualifying # << >> /\ common
             THEN PathMatches(qualifying, annotated.file)
             ELSE TRUE
    ELSE annotated.is_method

\* Faulty variant: a method call matches an entry whether or not it is a method
is_plausible_match_any_method(callee, annotated) ==
    IF callee.tag = "FreeFunction"
    THEN LET common == is_common_function_name(callee.name)
             qualifying == Qualifying(callee.path_segments)
         IN  IF Len(callee.path_segments) > 1
             THEN IF qualifying # << >> /\ common
                  THEN PathMatches(qualifying, annotated.file)
                  ELSE TRUE
             ELSE IF common THEN FALSE ELSE TRUE
    ELSE TRUE

\* Faulty variant: a free-function call matches only an entry that is not a method
is_plausible_match_free_only(callee, annotated) ==
    IF callee.tag = "FreeFunction"
    THEN LET common == is_common_function_name(callee.name)
             qualifying == Qualifying(callee.path_segments)
         IN  /\ ~annotated.is_method
             /\ IF Len(callee.path_segments) > 1
                THEN IF qualifying # << >> /\ common
                     THEN PathMatches(qualifying, annotated.file)
                     ELSE TRUE
                ELSE IF common THEN FALSE ELSE TRUE
    ELSE annotated.is_method

\* Faulty variant: the denylist is applied to method calls too
is_plausible_match_method_denylist(callee, annotated) ==
    IF callee.tag = "FreeFunction"
    THEN LET common == is_common_function_name(callee.name)
             qualifying == Qualifying(callee.path_segments)
         IN  IF Len(callee.path_segments) > 1
             THEN IF qualifying # << >> /\ common
                  THEN PathMatches(qualifying, annotated.file)
                  ELSE TRUE
             ELSE IF common THEN FALSE ELSE TRUE
    ELSE annotated.is_method /\ ~is_common_function_name(callee.name)

\* Faulty variant: a qualified call needs a path match whatever its name
is_plausible_match_path_required(callee, annotated) ==
    IF callee.tag = "FreeFunction"
    THEN LET common == is_common_function_name(callee.name)
             qualifying == Qualifying(callee.path_segments)
         IN  IF Len(callee.path_segments) > 1
             THEN IF qualifying # << >>
                  THEN PathMatches(qualifying, annotated.file)
                  ELSE TRUE
             ELSE IF common THEN FALSE ELSE TRUE
    ELSE annotated.is_method

is_plausible_match(callee, annotated) ==
    IF callee.tag = "FreeFunction"
    THEN LET common == is_common_function_name(callee.name)
             qualifying == Qualifying(callee.path_segments)
         IN  IF Len(callee.path_segments) > 1
             THEN IF qualifying # << >> /\ common
                  THEN PathMatches(qualifying, annotated.file)
                  ELSE TRUE
             ELSE IF common THEN FALSE ELSE TRUE
    ELSE annotated.is_method

extract_callee_from_func(func) ==
    IF func.kind = "Path" /\ func.segs # << >>
    THEN Some(FreeFunction(Last(func.segs), func.segs))
    ELSE None

\* Faulty variant: the `?` wrapper is not looked through
RECURSIVE find_callee_no_try(_)
find_callee_no_try(expr) ==
    CASE expr.kind = "Call" -> extract_callee_from_func(expr.sub[1])
      [] expr.kind = "Await" -> find_callee_no_try(expr.sub[1])
      [] expr.kind = "MethodCall" -> Some(Method(expr.segs[1]))
      [] expr.kind = "Paren" -> find_callee_no_try(expr.sub[1])
      [] OTHER -> None

\* Faulty variant: the receiver of a method call is chased further
RECURSIVE find_callee_through_methods(_)
find_callee_through_methods(expr) ==
    CASE expr.kind = "Call" -> extract_callee_from_func(expr.sub[1])
      [] expr.kind = "Await" -> find_callee_through_methods(expr.sub[1])
      [] expr.kind = "MethodCall" ->
            IF find_callee_through_methods(expr.sub[1]) # None
            THEN find_callee_through_methods(expr.sub[1])
            ELSE Some(Method(expr.segs[1]))
      [] expr.kind = "Paren" -> find_callee_through_methods(expr.sub[1])
      [] expr.kind = "Try" -> find_callee_through_methods(expr.sub[1])
      [] OTHER -> None

RECURSIVE find_callee_in_receiver(_)
find_callee_in_receiver(expr) ==
    CASE expr.kind = "Call" -> extract_callee_from_func(expr.sub[1])
      [] expr.kind = "Await" -> find_callee_in_receiver(expr.sub[1])
      [] expr.kind = "MethodCall" -> Some(Method(expr.segs[1]))
      [] expr.kind = "Paren" -> find_callee_in_receiver(expr.sub[1])
      [] expr.kind = "Try" -> find_callee_in_receiver(expr.sub[1])
      [] OTHER -> None

\* the Expr::Lit and Expr::Macro arms shared by the argument and the closure body
ExtractLitOrMacro(e) ==
    IF e.kind = "Lit"
    THEN IF IsLitStr(e.text) THEN Some(LitStrValue(e.text)) ELSE None
    ELSE IF e.segs # << >> /\ Last(e.segs) = S_format
         THEN Some(S_format_open \o e.text \o << ")" >>)
         ELSE None

\* Faulty variant: every argument without an extracted string gives the sentinel
extract_context_arg_sentinel(method_call) ==
    IF method_call.args = << >> THEN None
    ELSE LET first_arg == method_call.args[1]
             body == IF first_arg.kind = "Closure" THEN first_arg.sub[1] ELSE first_arg
         IN  IF body.kind \in {"Lit", "Macro"} /\ ExtractLitOrMacro(body) # None
             THEN ExtractLitOrMacro(body)
             ELSE Some(S_complex_expression)

extract_context_arg(method_call) ==
    IF method_call.args = << >> THEN None
    ELSE LET first_arg == method_call.args[1]
         IN  CASE first_arg.kind \in {"Lit", "Macro"} -> ExtractLitOrMacro(first_arg)
               [] first_arg.kind = "Closure" ->
                    IF first_arg.sub[1].kind \in {"Lit", "Macro"}
                    THEN ExtractLitOrMacro(first_arg.sub[1])
                    ELSE Some(S_complex_expression)
               [] OTHER -> Some(S_complex_expression)

DoubleContext(call_file, call_line, function_name, inner_context, outer_context, def_file, def_line, is_with_context) ==
    [call_file |-> call_file, call_line |-> call_line, function_name |-> function_name,
     inner_context |-> inner_context, outer_context |-> outer_context,
     def_file |-> def_file, def_line |-> def_line, is_with_context |-> is_with_context]

\* Faulty variant: only the first plausible entry is kept
MatchesBest(callee, annotated_fns) ==
    LET all == SelectSeq(annotated_fns, LAMBDA af : is_plausible_match(callee, af))
    IN  IF all = << >> THEN << >> ELSE << Head(all) >>

\* annotated_fns.iter().filter(|af| is_plausible_match(&callee, af)).collect()
Matches(callee, annotated_fns) ==
    SelectSeq(annotated_fns, LAMBDA af : is_plausible_match(callee, af))

\* Faulty variant: the finding carries the line of the receiver, not of the combinator
check_context_call_callee_line(path, idx, method_call) ==
    LET method_name == method_call.segs[1]
        is_with_context == (method_name = S_with_context)
        callee == find_callee_in_receiver(method_call.sub[1])
    IN  IF method_name # S_context /\ ~is_with_context THEN << >>
        ELSE IF callee = None THEN << >>
        ELSE IF IndexGet(idx, callee[1].name) = None THEN << >>
        ELSE LET annotated_fns == IndexGet(idx, callee[1].name)[1]
                 outer_context == extract_context_arg(method_call)
                 matches == SelectSeq(annotated_fns,
                                      LAMBDA af : is_plausible_match(callee[1], af))
             IN  [i \in 1..Len(matches) |->
                    DoubleContext(path, method_call.sub[1].line, callee[1].name,
                                  matches[i].context_string, outer_context,
                                  matches[i].file, matches[i].line, is_with_context)]

\* The findings check_context_call pushes for one method-call node
check_context_call(path, idx, method_call) ==
    LET method_name == method_call.segs[1]
        is_with_context == (method_name = S_with_context)
        callee == find_callee_in_receiver(method_call.sub[1])
    IN  IF method_name # S_context /\ ~is_with_context THEN << >>
        ELSE IF callee = None THEN << >>
        ELSE IF IndexGet(idx, callee[1].name) = None THEN << >>
        ELSE LET annotated_fns == IndexGet(idx, callee[1].name)[1]
                 outer_context == extract_context_arg(method_call)
                 matches == Matches(callee[1], annotated_fns)
             IN  [i \in 1..Len(matches) |->
                    DoubleContext(path, method_call.line, callee[1].name,
                                  matches[i].context_string, outer_context,
                                  matches[i].file, matches[i].line, is_with_context)]

\* syn::visit over an expression, with visit_expr_method_call overridden:
\* the node itself first, then its children in source order.
RECURSIVE VisitExpr(_, _, _)
RECURSIVE VisitExprs(_, _, _)

\* Faulty variant: the walk does not continue below a combinator node
VisitExprShallow(path, idx, e) ==
    IF e.kind = "MethodCall" /\ e.segs[1] \in {S_context, S_with_context}
    THEN check_context_call(path, idx, e)
    ELSE VisitExprs(path, idx, e.sub) \o VisitExprs(path, idx, e.args)

VisitExpr(path, idx, e) ==
    (IF e.kind = "MethodCall" THEN check_context_call(path, idx, e) ELSE << >>)
    \o VisitExprs(path, idx, e.sub)
    \o VisitExprs(path, idx, e.args)

VisitExprs(path, idx, es) ==
    IF es = << >> THEN << >>
    ELSE VisitExpr(path, idx, Head(es)) \o VisitExprs(path, idx, Tail(es))

(***************************************************************************)
(* Attributes, types and items (syn::Attribute, syn::Type, syn::Item).     *)
(*                                                                         *)
(* An attribute is its path, the shape of its meta ("Path" for #[a],       *)
(* "List" for #[a(...)], "NameValue" for #[a = ...]) and, for a list, its  *)
(* token trees.  A token tree is [tt, text]: tt is "Literal", "Ident",     *)
(* "Punct" or "Group", text its source text.                               *)
(*                                                                         *)
(* Every item is a record of the same fields:                              *)
(*   kind     "Fn" (ItemFn), "ImplFn" (ImplItemFn), "TraitFn"              *)
(*            (TraitItemFn), "Impl", "Mod", "Trait", "Use", "Type"         *)
(*   attrs    the item's attributes, in source order                       *)
(*   name     the identifier of a function, module, trait or type alias    *)
(*   receiver sig.receiver().is_some()                                     *)
(*   is_pub   whether the visibility is Visibility::Public                 *)
(*   line     the line of the identifier                                   *)
(*   output   the declared return type, None for ReturnType::Default       *)
(*   trait_   whether an Impl names a trait                                *)
(*   items    the items nested in a Mod, Impl, Trait or function body      *)
(*   body     the expressions of a function body, in source order          *)
(*   tree     the UseTree of a Use (Option)                                *)
(*   ty       the right-hand side of a Type alias (Option)                 *)
(***************************************************************************)
Attribute(path, meta, tokens) == [path |-> path, meta |-> meta, tokens |-> tokens]
Token(tt, text) == [tt |-> tt, text |-> text]

\* A type: kind "Path" with its segments, whether the last segment has
\* angle-bracketed arguments, and how many of them are GenericArgument::Type
\* and how many are of another kind; or kind "Other" (a reference, a tuple, ...)
TypePath(segs, bracketed, type_args, other_args) ==
    [kind |-> "Path", segs |-> segs, bracketed |-> bracketed,
     type_args |-> type_args, other_args |-> other_args]
TypeOther == [kind |-> "Other", segs |-> << >>, bracketed |-> FALSE,
              type_args |-> 0, other_args |-> 0]

Item(kind, attrs, name, receiver, is_pub, line, output, trait_, items, body, tree, ty) ==
    [kind |-> kind, attrs |-> attrs, name |-> name, receiver |-> receiver,
     is_pub |-> is_pub, line |-> line, output |-> output, trait_ |-> trait_,
     items |-> items, body |-> body, tree |-> tree, ty |-> ty]

FnKinds == {"Fn", "ImplFn", "TraitFn"}

FnItem(kind, attrs, name, receiver, is_pub, line, output, items, body) ==
    Item(kind, attrs, name, receiver, is_pub, line, output, FALSE, items, body, None, None)
ItemImpl(trait_, items) ==
    Item("Impl", << >>, << >>, FALSE, FALSE, 0, None, trait_, items, << >>, None, None)
ItemMod(attrs, name, items) ==
    Item("Mod", attrs, name, FALSE, FALSE, 0, None, FALSE, items, << >>, None, None)
ItemTrait(name, items) ==
    Item("Trait", << >>, name, FALSE, FALSE, 0, None, FALSE, items, << >>, None, None)

(***************************************************************************)
(* collector.rs: the visitor                                               *)
(***************************************************************************)
S_fn_error_context ==
    << "f", "n", "_", "e", "r", "r", "o", "r", "_", "c", "o", "n", "t", "e", "x", "t" >>

\* The closed match over the attribute path (collector.rs 72-80, unattributed.rs 260-266)
IsContextPath(path) ==
    CASE Len(path) = 1 -> path[1] = S_context
      [] Len(path) = 2 -> path[1] = S_fn_error_context /\ path[2] = S_context
      [] OTHER -> FALSE

\* A token that is a literal whose text starts and ends with a double quote
IsQuotedLiteral(token) ==
    token.tt = "Literal" /\ starts_with(token.text, Quote) /\ ends_with(token.text, Quote)

\* for token in tokens { ... return Some(repr[1..repr.len() - 1]) } None
FirstQuotedLiteral(tokens) ==
    IF \E i \in 1..Len(tokens) : IsQuotedLiteral(tokens[i])
    THEN LET i == CHOOSE j \in 1..Len(tokens) :
                    /\ IsQuotedLiteral(tokens[j])
                    /\ \A k \in 1..(j - 1) : ~IsQuotedLiteral(tokens[k])
             repr == tokens[i].text
         IN  Some(SubSeq(repr, 2, Len(repr) - 1))
    ELSE None

extract_context_string(attr) ==
    IF ~IsContextPath(attr.path) THEN None
    ELSE IF attr.meta # "List" THEN None
    ELSE FirstQuotedLiteral(attr.tokens)

\* Faulty variant: the walk over the attributes stops at the first one that
\* matches the marker, with or without a string
RECURSIVE collector_check_fn_first_marker(_, _, _, _, _)
collector_check_fn_first_marker(path, attrs, name, is_method, line) ==
    IF attrs = << >> THEN << >>
    ELSE LET context_string == extract_context_string(Head(attrs))
         IN  IF context_string # None
             THEN << AnnotatedFunction(name, path, line, context_string[1], is_method) >>
             ELSE IF IsContextPath(Head(attrs).path) THEN << >>
             ELSE collector_check_fn_first_marker(path, Tail(attrs), name, is_method, line)

\* ContextCollector::check_fn: the entries it pushes (none or one)
RECURSIVE collector_check_fn(_, _, _, _, _)
collector_check_fn(path, attrs, name, is_method, line) ==
    IF attrs = << >> THEN << >>
    ELSE LET context_string == extract_context_string(Head(attrs))
         IN  IF context_string # None
             THEN << AnnotatedFunction(name, path, line, context_string[1], is_method) >>
             ELSE collector_check_fn(path, Tail(attrs), name, is_method, line)

\* syn::visit over items with visit_item_fn, visit_impl_item_fn and
\* visit_trait_item_fn overridden: the declaration first, then what it nests
RECURSIVE CollectItem(_, _)
RECURSIVE CollectItems(_, _)
CollectItem(path, item) ==
    (IF item.kind \in FnKinds
     THEN collector_check_fn(path, item.attrs, item.name, item.receiver, item.line)
     ELSE << >>)
    \o CollectItems(path, item.items)

CollectItems(path, items) ==
    IF items = << >> THEN << >>
    ELSE CollectItem(path, Head(items)) \o CollectItems(path, Tail(items))

(***************************************************************************)
(* unattributed.rs                                                         *)
(***************************************************************************)
S_anyhow == << "a", "n", "y", "h", "o", "w" >>
S_Result == << "R", "e", "s", "u", "l", "t" >>
S_main == << "m", "a", "i", "n" >>
S_test == << "t", "e", "s", "t" >>
S_cfg == << "c", "f", "g" >>

\* syn::UseTree: kind "Path" (ident::sub), "Name" (ident), "Rename"
\* (ident as rename), "Glob" (*), "Group" ({sub, ...})
UseTree(kind, ident, rename, sub) ==
    [kind |-> kind, ident |-> ident, rename |-> rename, sub |-> sub]

ItemUse(tree) ==
    Item("Use", << >>, << >>, FALSE, FALSE, 0, None, FALSE, << >>, << >>, Some(tree), None)
ItemType(name, ty) ==
    Item("Type", << >>, name, FALSE, FALSE, 0, None, FALSE, << >>, << >>, None, Some(ty))

\* Faulty variant: a glob under anyhow:: is not taken as an import of Result
RECURSIVE use_subtree_imports_result_no_glob(_)
use_subtree_imports_result_no_glob(tree) ==
    CASE tree.kind = "Name" -> tree.ident = S_Result
      [] tree.kind = "Rename" -> tree.ident = S_Result
      [] tree.kind = "Group" ->
            \E i \in 1..Len(tree.sub) : use_subtree_imports_result_no_glob(tree.sub[i])
      [] OTHER -> FALSE

RECURSIVE use_subtree_imports_result(_)
use_subtree_imports_result(tree) ==
    CASE tree.kind = "Name" -> tree.ident = S_Result
      [] tree.kind = "Rename" -> tree.ident = S_Result
      [] tree.kind = "Glob" -> TRUE
      [] tree.kind = "Group" ->
            \E i \in 1..Len(tree.sub) : use_subtree_imports_result(tree.sub[i])
      [] OTHER -> FALSE

use_tree_imports_anyhow_result(tree) ==
    IF tree.kind = "Path" /\ tree.ident = S_anyhow
    THEN use_subtree_imports_result(tree.sub[1])
    ELSE FALSE

\* over file.items, the top-level items only
has_anyhow_result_in_scope(file) ==
    \E i \in 1..Len(file) :
        file[i].kind = "Use" /\ use_tree_imports_anyhow_result(file[i].tree[1])

\* Faulty variant: only the qualified path is taken as anyhow's type
is_anyhow_result_type_qualified_only(ty) ==
    ty.kind = "Path" /\ ty.segs = << S_anyhow, S_Result >>

is_anyhow_result_type(ty) ==
    ty.kind = "Path" /\ (ty.segs = << S_anyhow, S_Result >> \/ ty.segs = << S_Result >>)

has_non_anyhow_result_alias(file) ==
    \E i \in 1..Len(file) :
        /\ file[i].kind = "Type"
        /\ file[i].name = S_Result
        /\ ~is_anyhow_result_type(file[i].ty[1])

\* proc_macro2::TokenStream::to_string: the token texts, separated by spaces
RECURSIVE TokensToString(_)
TokensToString(tokens) ==
    IF tokens = << >> THEN << >>
    ELSE IF Len(tokens) = 1 THEN tokens[1].text
    ELSE tokens[1].text \o << " " >> \o TokensToString(Tail(tokens))

RECURSIVE TrimStart(_)
TrimStart(s) == IF s # << >> /\ s[1] = " " THEN TrimStart(Tail(s)) ELSE s

RECURSIVE TrimEnd(_)
TrimEnd(s) ==
    IF s # << >> /\ s[Len(s)] = " " THEN TrimEnd(SubSeq(s, 1, Len(s) - 1)) ELSE s

\* str::trim
trim(s) == TrimEnd(TrimStart(s))

has_cfg_test_attribute(attrs) ==
    \E i \in 1..Len(attrs) :
        /\ attrs[i].path = << S_cfg >>
        /\ attrs[i].meta = "List"
        /\ trim(TokensToString(attrs[i].tokens)) = S_test

\* Faulty variant: a path of any length ending in test exempts
has_test_attribute_any_length(attrs) ==
    \E i \in 1..Len(attrs) :
        Len(attrs[i].path) >= 1 /\ attrs[i].path[Len(attrs[i].path)] = S_test

has_test_attribute(attrs) ==
    \E i \in 1..Len(attrs) :
        \/ (Len(attrs[i].path) = 1 /\ attrs[i].path[1] = S_test)
        \/ (Len(attrs[i].path) = 2 /\ attrs[i].path[2] = S_test)

\* Faulty variant: only the one-segment form of the marker is seen
has_context_attribute_short_only(attrs) ==
    \E i \in 1..Len(attrs) : attrs[i].path = << S_context >>

has_context_attribute(attrs) ==
    \E i \in 1..Len(attrs) : IsContextPath(attrs[i].path)

\* PathArguments::AngleBracketed with exactly one GenericArgument::Type
has_single_type_argument(ty) == ty.bracketed /\ ty.type_args = 1

returns_anyhow_result(anyhow_result_imported, output) ==
    IF output = None THEN FALSE
    ELSE LET ty == output[1]
         IN  IF ty.kind # "Path" THEN FALSE
             ELSE IF ty.segs = << S_anyhow, S_Result >> THEN TRUE
             ELSE IF ty.segs = << S_Result >> /\ anyhow_result_imported
                  THEN has_single_type_argument(ty)
                  ELSE FALSE

UnattributedFunction(file, line, name, is_method, is_pub) ==
    [file |-> file, line |-> line, name |-> name, is_method |-> is_method, is_pub |-> is_pub]

\* struct UnattributedChecker
UnattributedChecker(path, anyhow_result_imported, in_cfg_test, in_trait_impl, res) ==
    [file_path |-> path, anyhow_result_imported |-> anyhow_result_imported,
     in_cfg_test |-> in_cfg_test, in_trait_impl |-> in_trait_impl, results |-> res]

\* UnattributedChecker::check_fn: the checker after the call
unattributed_check_fn(self, item) ==
    IF self.in_cfg_test THEN self
    ELSE IF self.in_trait_impl THEN self
    ELSE IF item.name = S_main THEN self
    ELSE IF has_test_attribute(item.attrs) THEN self
    ELSE IF has_context_attribute(item.attrs) THEN self
    ELSE IF ~returns_anyhow_result(self.anyhow_result_imported, item.output) THEN self
    ELSE [self EXCEPT !.results =
            Append(@, UnattributedFunction(self.file_path, item.line, item.name,
                                           item.receiver, item.is_pub))]

\* Visit for UnattributedChecker: visit_item_fn, visit_impl_item_fn,
\* visit_item_impl and visit_item_mod are overridden; every other item is
\* walked by syn's default visitor.  The result is the checker after the walk.
RECURSIVE unattributed_visit_item(_, _)
RECURSIVE unattributed_visit_items(_, _)
\* Faulty variant: every impl block, inherent ones too, sets the flag
visit_item_impl_any(self, node) ==
    LET prev_in_trait_impl == self.in_trait_impl
        entered == [self EXCEPT !.in_trait_impl = TRUE]
        walked == unattributed_visit_items(entered, node.items)
    IN  [walked EXCEPT !.in_trait_impl = prev_in_trait_impl]

visit_item_impl(self, node) ==
    LET prev_in_trait_impl == self.in_trait_impl
        entered == IF node.trait_ THEN [self EXCEPT !.in_trait_impl = TRUE] ELSE self
        walked == unattributed_visit_items(entered, node.items)
    IN  [walked EXCEPT !.in_trait_impl = prev_in_trait_impl]

\* Faulty variant: the flag is left as the walk of the module set it
visit_item_mod_no_restore(self, node) ==
    LET entered == IF has_cfg_test_attribute(node.attrs)
                   THEN [self EXCEPT !.in_cfg_test = TRUE] ELSE self
    IN  unattributed_visit_items(entered, node.items)

visit_item_mod(self, node) ==
    LET prev_in_cfg_test == self.in_cfg_test
        entered == IF has_cfg_test_attribute(node.attrs)
                   THEN [self EXCEPT !.in_cfg_test = TRUE] ELSE self
        walked == unattributed_visit_items(entered, node.items)
    IN  [walked EXCEPT !.in_cfg_test = prev_in_cfg_test]

unattributed_visit_item(self, node) ==
    CASE node.kind \in {"Fn", "ImplFn"} ->
            unattributed_visit_items(unattributed_check_fn(self, node), node.items)
      [] node.kind = "Impl" -> visit_item_impl(self, node)
      [] node.kind = "Mod" -> visit_item_mod(self, node)
      [] OTHER -> unattributed_visit_items(self, node.items)

unattributed_visit_items(self, nodes) ==
    IF nodes = << >> THEN self
    ELSE unattributed_visit_items(unattributed_visit_item(self, Head(nodes)), Tail(nodes))

\* unattributed::check_file on a unit that was read and parsed
unattributed_check_parsed(path, file) ==
    unattributed_visit_items(
        UnattributedChecker(path,
                            has_anyhow_result_in_scope(file) /\ ~has_non_anyhow_result_alias(file),
                            FALSE, FALSE, << >>),
        file).results

\* checker::check_file on a unit that was read and parsed: the visitor's
\* results after visit_file.  A function body's expressions are walked before
\* the items declared inside that body.
RECURSIVE CheckItem(_, _, _)
RECURSIVE CheckItems(_, _, _)
CheckItem(path, idx, item) ==
    VisitExprs(path, idx, item.body) \o CheckItems(path, idx, item.items)

CheckItems(path, idx, items) ==
    IF items = << >> THEN << >>
    ELSE CheckItem(path, idx, Head(items)) \o CheckItems(path, idx, Tail(items))

(***************************************************************************)
(* Bounded inputs                                                          *)
(***************************************************************************)
MaxWrap == 2       \* nesting depth of .await / ( ) / ? around a call
MaxEntries == 2    \* number of entries collected into the index

S_open == << "o", "p", "e", "n" >>
S_fetch == << "f", "e", "t", "c", "h" >>
S_gone == << "g", "o", "n", "e" >>
S_pod == << "p", "o", "d" >>
S_Pod == << "P", "o", "d" >>
S_std == << "s", "t", "d" >>
S_my == << "m", "y" >>
S_x == << "x" >>
S_map == << "m", "a", "p" >>
File_pod == << "s", "r", "c", "/", "p", "o", "d", ".", "r", "s" >>
File_my == << "s", "r", "c", "/", "m", "y", ".", "r", "s" >>
File_main == << "s", "r", "c", "/", "m", "a", "i", "n", ".", "r", "s" >>
Ctx_open == << "O", "p", "e", "n", "i", "n", "g" >>
Ctx_fetch == << "F", "e", "t", "c", "h" >>
Lit_X == << Quote, "X", Quote >>
Lit_42 == << "4", "2" >>
Tokens_fmt == << Quote, "{", "}", Quote, ",", " ", "p" >>

\* Wrappers: sequences over the three transparent wrapper kinds
RECURSIVE WrapSeqs(_)
WrapSeqs(n) ==
    IF n = 0 THEN { << >> }
    ELSE LET shorter == WrapSeqs(n - 1)
         IN  shorter \cup { << k >> \o w : k \in {"Await", "Paren", "Try"},
                                           w \in { v \in shorter : Len(v) = n - 1 } }

\* Wrap(<<k1, ..., kn>>, e) = k1(... kn(e))
RECURSIVE Wrap(_, _)
Wrap(w, e) ==
    IF w = << >> THEN e
    ELSE Node(Head(w), << Wrap(Tail(w), e) >>, << >>, << >>, << >>, 0)

\* Annotated functions that may be in the index
\* (a free function is declared on line 3 of its file, a method on line 4)
DeclLine(is_method) == IF is_method THEN 4 ELSE 3

CheckerEntries ==
    { AnnotatedFunction(S_open, File_pod, DeclLine(m), Ctx_open, m) : m \in BOOLEAN }
    \cup { AnnotatedFunction(S_open, File_my, DeclLine(m), Ctx_open, m) : m \in BOOLEAN }
    \cup { AnnotatedFunction(S_fetch, File_my, DeclLine(m), Ctx_fetch, m) : m \in BOOLEAN }

RECURSIVE SeqsUpTo(_, _)
SeqsUpTo(S, n) ==
    IF n = 0 THEN { << >> }
    ELSE LET shorter == SeqsUpTo(S, n - 1)
         IN  shorter \cup { Append(s, x) : s \in { v \in shorter : Len(v) = n - 1 }, x \in S }

\* Call targets: paths with and without qualifiers
CalleePaths ==
    { << S_open >>, << S_fetch >>, << S_gone >>,
      << S_pod, S_open >>, << S_Pod, S_open >>, << S_std, S_open >>,
      << S_crate, S_open >>, << S_crate, S_pod, S_open >>,
      << S_std, S_fetch >>, << S_my, S_fetch >> }

\* The expressions a wrapper chain may end in
Terminals ==
    { ExprCall(ExprPath(p), << ExprPath(<< S_x >>) >>) : p \in CalleePaths }
    \cup { ExprMethodCall(ExprPath(<< S_x >>), m, << >>, 1) : m \in {S_open, S_fetch} }
    \cup { ExprMethodCall(ExprCall(ExprPath(<< S_fetch >>), << >>), m, << >>, 1) :
              m \in {S_open, S_gone} }
    \cup { ExprPath(<< S_fetch >>),
           ExprField(ExprPath(<< S_x >>), S_fetch),
           ExprCall(ExprParen(ExprPath(<< S_fetch >>)), << >>) }

\* The combinator's method and argument
Combinators ==
    { << S_context, << ExprLit(Lit_X) >> >>,
      << S_with_context, << ExprClosure(ExprMacro(<< S_format >>, Tokens_fmt)) >> >>,
      << S_map, << ExprLit(Lit_X) >> >> }

\* One combinator over a terminal, each kind of combinator over the bare
\* terminal and the eager one over every wrapping of it
SimpleNodes ==
    { ExprMethodCall(t, c[1], c[2], 2) : t \in Terminals, c \in Combinators }
    \cup { ExprMethodCall(Wrap(w, t), S_context, << ExprLit(Lit_X) >>, 2) :
              w \in WrapSeqs(MaxWrap), t \in Terminals }

\* Combinators nested in the receiver or in an argument of another one
NestedNodes ==
    LET inner(p) == ExprMethodCall(ExprCall(ExprPath(p), << >>), S_context, << ExprLit(Lit_X) >>, 1)
    IN  { ExprMethodCall(inner(p), m, << ExprLit(Lit_X) >>, 2) :
            p \in {<< S_fetch >>, << S_gone >>}, m \in {S_context, S_map} }
        \cup { ExprMethodCall(ExprCall(ExprPath(<< g >>), << inner(<< S_fetch >>) >>),
                              S_with_context,
                              << ExprClosure(inner(<< S_fetch >>)) >>, 2) :
                 g \in {S_fetch, S_gone} }

CheckerNodes == SimpleNodes \cup NestedNodes

\* A unit whose only function has the one statement e
UnitOf(e) ==
    << FnItem("Fn", << >>, S_main, FALSE, FALSE, 1, None, << >>, << e >>) >>

\* The combinator statement of a unit made by UnitOf
StatementOf(unit) == unit[1].body[1]

(***************************************************************************)
(* SpecChecker: the call-site matcher on one unit.  The index is drawn     *)
(* from the bounded entries, the unit from the bounded expressions, and    *)
(* the one action is check_file's walk (checker.rs 58-65).                 *)
(***************************************************************************)
Idle == "idle"

\* run() is not running
RunIdle ==
    /\ cli_unattributed = "deny"
    /\ all_files = << >>
    /\ pc = Idle
    /\ cursor = 0
    /\ all_double_context = << >>
    /\ all_unattributed = << >>
    /\ error = None
    /\ reported = None
    /\ exit_code = None

InitChecker ==
    /\ RunIdle
    /\ all_annotated \in SeqsUpTo(CheckerEntries, MaxEntries)
    /\ index = build_index(all_annotated)
    /\ syntax = << >>
    /\ file_path = File_main
    /\ results = << >>
    /\ visited = FALSE

CheckFileParsed ==
    /\ ~visited
    /\ \E e \in CheckerNodes :
          /\ syntax' = UnitOf(e)
          /\ results' = CheckItems(file_path, index, UnitOf(e))
    /\ visited' = TRUE
    /\ UNCHANGED << runVars, index, file_path >>

NextChecker == CheckFileParsed

SpecChecker == InitChecker /\ [][NextChecker]_vars


(***************************************************************************)
(* SpecCollector: the index builder on one unit holding one function-like  *)
(* declaration.  The declaration's kind, receiver and attributes are drawn *)
(* from the bounded sets below; the one action is collect_from_file's walk *)
(* (collector.rs 42-48).                                                   *)
(***************************************************************************)
MaxAttrs == 2      \* number of attributes on a declaration

S_move == << "m", "o", "v", "e" >>
S_inline == << "i", "n", "l", "i", "n", "e" >>
S_other == << "o", "t", "h", "e", "r" >>
S_p == << "p" >>
Lit_Ctx == << Quote, "C", "t", "x", Quote >>
Lit_Del == << Quote, "D", "e", "l", " ", "{", "}", Quote >>
Lit_Esc == << Quote, "a", Backslash, Quote, "b", Quote >>
Lit_Raw == << "r", Quote, "R", "a", "w", Quote >>
Comma == Token("Punct", << "," >>)

\* Attributes a declaration may carry
CollectorAttrs ==
    { Attribute(<< S_context >>, "List", << Token("Literal", Lit_Ctx) >>),
      Attribute(<< S_fn_error_context, S_context >>, "List",
                << Token("Literal", Lit_Del), Comma, Token("Ident", S_p) >>),
      Attribute(<< S_context >>, "List",
                << Token("Ident", S_move), Comma, Token("Literal", Lit_Ctx) >>),
      Attribute(<< S_context >>, "List", << Token("Literal", Lit_Esc) >>),
      Attribute(<< S_context >>, "List", << Token("Literal", Lit_Raw) >>),
      Attribute(<< S_context >>, "List", << Token("Literal", Lit_42) >>),
      Attribute(<< S_context >>, "Path", << >>),
      Attribute(<< S_context >>, "NameValue", << >>),
      Attribute(<< S_other, S_context >>, "List", << Token("Literal", Lit_Ctx) >>),
      Attribute(<< S_other, S_fn_error_context, S_context >>, "List",
                << Token("Literal", Lit_Ctx) >>),
      Attribute(<< S_inline >>, "Path", << >>) }

\* One declaration named fetch on line 7, as a free function, as a method or
\* associated function of an impl block, or as a trait's default method
CollectorDecls ==
    { FnItem(k, attrs, S_fetch, r, FALSE, 7, None, << >>, << >>) :
        k \in FnKinds, attrs \in SeqsUpTo(CollectorAttrs, MaxAttrs), r \in BOOLEAN }

\* The unit holding declaration d
UnitOfDecl(d) ==
    CASE d.kind = "Fn" -> << d >>
      [] d.kind = "ImplFn" -> << ItemImpl(FALSE, << d >>) >>
      [] OTHER -> << ItemTrait(S_x, << d >>) >>

\* The declaration of a unit made by UnitOfDecl
DeclOf(unit) == IF unit[1].kind \in FnKinds THEN unit[1] ELSE unit[1].items[1]

InitCollector ==
    /\ RunIdle
    /\ all_annotated = << >>
    /\ index = EmptyIndex
    /\ \E d \in CollectorDecls : syntax = UnitOfDecl(d)
    /\ file_path = File_my
    /\ results = << >>
    /\ visited = FALSE

CollectFileParsed ==
    /\ ~visited
    /\ results' = CollectItems(file_path, syntax)
    /\ visited' = TRUE
    /\ UNCHANGED << runVars, index, syntax, file_path >>

NextCollector == CollectFileParsed

SpecCollector == InitCollector /\ [][NextCollector]_vars

(***************************************************************************)
(* Properties of the index builder (checked under SpecCollector)           *)
(***************************************************************************)
\* The first attribute of the declaration that matches the annotation marker
HasMarker(d) == \E i \in 1..Len(d.attrs) : IsContextPath(d.attrs[i].path)
FirstMarker(d) ==
    d.attrs[CHOOSE i \in 1..Len(d.attrs) :
                /\ IsContextPath(d.attrs[i].path)
                /\ \A j \in 1..(i - 1) : ~IsContextPath(d.attrs[j].path)]

\* The attribute is a list whose first argument is a string literal
FirstArgIsStringLiteral(attr) ==
    /\ attr.meta = "List"
    /\ attr.tokens # << >>
    /\ attr.tokens[1].tt = "Literal"
    /\ IsLitStr(attr.tokens[1].text)

\* C9: a declaration whose annotation marker has a string literal as its
\* first argument yields exactly one entry: the declaration's name, file and
\* line, is_method = it has a self receiver, and context_string = the string
\* that literal denotes, whatever follows the literal.
C9_OneEntryPerAnnotatedDecl ==
    ( /\ visited
      /\ HasMarker(DeclOf(syntax))
      /\ FirstArgIsStringLiteral(FirstMarker(DeclOf(syntax))) )
    => /\ Len(results) = 1
       /\ results[1].name = DeclOf(syntax).name
       /\ results[1].file = file_path
       /\ results[1].line = DeclOf(syntax).line
       /\ results[1].is_method = DeclOf(syntax).receiver
       /\ results[1].context_string = LitStrValue(FirstMarker(DeclOf(syntax)).tokens[1].text)

\* The attribute matches the marker and is a list with a quoted string
\* literal among its top-level tokens
MarkerWithString(attr) ==
    /\ IsContextPath(attr.path)
    /\ attr.meta = "List"
    /\ \E i \in 1..Len(attr.tokens) : IsQuotedLiteral(attr.tokens[i])

\* The position of the first attribute of d that satisfies P(_), 0 if none
FirstAttr(d, P(_)) ==
    IF \E i \in 1..Len(d.attrs) : P(d.attrs[i])
    THEN CHOOSE i \in 1..Len(d.attrs) :
            P(d.attrs[i]) /\ \A j \in 1..(i - 1) : ~P(d.attrs[j])
    ELSE 0

IsMarker(attr) == IsContextPath(attr.path)

\* The number of attributes of d that match the marker
Markers(d) == Cardinality({ i \in 1..Len(d.attrs) : IsMarker(d.attrs[i]) })

\* C23 as stated: a declaration with marker attributes yields at most one
\* entry, and an entry comes from the first attribute that matches the
\* marker, also when that attribute has no string argument.
C23_EntryFromFirstMarker ==
    (visited /\ HasMarker(DeclOf(syntax))) =>
        /\ Len(results) <= 1
        /\ results # << >> =>
              /\ MarkerWithString(FirstMarker(DeclOf(syntax)))
              /\ Some(results[1].context_string)
                    = FirstQuotedLiteral(FirstMarker(DeclOf(syntax)).tokens)

\* C23 amended: a declaration yields at most one entry; the entry comes from
\* the first attribute that matches the marker and holds a quoted string
\* literal, attributes after that one never contribute, and marker attributes
\* without such a literal are passed over; there is no entry when no
\* attribute is of that kind.
C23_EntryFromFirstMarkerWithString ==
    visited =>
        LET d == DeclOf(syntax)
            i == FirstAttr(d, MarkerWithString)
        IN  IF i = 0 THEN results = << >>
            ELSE /\ Len(results) = 1
                 /\ Some(results[1].context_string) = FirstQuotedLiteral(d.attrs[i].tokens)

\* Two marker attributes with different strings: the entry is the first one's
C23_Witness ==
    /\ visited
    /\ Markers(DeclOf(syntax)) = 2
    /\ MarkerWithString(DeclOf(syntax).attrs[1])
    /\ MarkerWithString(DeclOf(syntax).attrs[2])
    /\ FirstQuotedLiteral(DeclOf(syntax).attrs[1].tokens)
          # FirstQuotedLiteral(DeclOf(syntax).attrs[2].tokens)
    /\ Len(results) = 1
    /\ Some(results[1].context_string) = FirstQuotedLiteral(DeclOf(syntax).attrs[1].tokens)

\* The first marker attribute has no string and the entry is the second's
C23_LaterMarkerContributes ==
    /\ visited
    /\ Markers(DeclOf(syntax)) = 2
    /\ ~MarkerWithString(DeclOf(syntax).attrs[1])
    /\ Len(results) = 1
    /\ Some(results[1].context_string) = FirstQuotedLiteral(DeclOf(syntax).attrs[2].tokens)

(***************************************************************************)
(* SpecUnattributed: the unattributed detector on one unit.  The unit is   *)
(* an optional `use anyhow::Result;`, one declaration placed under a chain *)
(* of enclosing scopes, and an optional free function after it.  The one   *)
(* action is check_file's walk (unattributed.rs 42-57).                    *)
(***************************************************************************)
MaxNest == 2       \* number of scopes enclosing the declaration

S_T == << "T" >>
S_not == << "n", "o", "t" >>
S_outer == << "o", "u", "t", "e", "r" >>
S_after == << "a", "f", "t", "e", "r" >>
S_tests == << "t", "e", "s", "t", "s" >>

Attr_cfg_test == Attribute(<< S_cfg >>, "List", << Token("Ident", S_test) >>)
Attr_cfg_not_test ==
    Attribute(<< S_cfg >>, "List",
              << Token("Ident", S_not), Token("Group", << "(", "t", "e", "s", "t", ")" >>) >>)
Attr_test == Attribute(<< S_test >>, "Path", << >>)
Attr_context == Attribute(<< S_context >>, "List", << Token("Literal", Lit_Ctx) >>)

\* anyhow::Result<T> and Result<T>
Type_anyhow_Result == TypePath(<< S_anyhow, S_Result >>, TRUE, 1, 0)
Type_Result == TypePath(<< S_Result >>, TRUE, 1, 0)

\* use anyhow::Result;
Use_anyhow_Result ==
    ItemUse(UseTree("Path", S_anyhow, << >>, << UseTree("Name", S_Result, << >>, << >>) >>))

\* The kinds of scope that may enclose the declaration: a #[cfg(test)]
\* module, a #[cfg(not(test))] module, an impl of a trait, an inherent impl,
\* the body of a function
ScopeKinds == {"ModTest", "ModNotTest", "ImplTrait", "Impl", "Fn"}

\* Chains of scopes, outermost first; an impl block holds functions only
ScopeChains ==
    { c \in SeqsUpTo(ScopeKinds, MaxNest) :
        \A i \in 1..(Len(c) - 1) : c[i] \in {"ImplTrait", "Impl"} => c[i + 1] = "Fn" }

\* The declaration under test: on line 7, named fetch or main
UnattributedDecls ==
    { FnItem("Fn", attrs, n, r, v, 7, out, << >>, << >>) :
        attrs \in {<< >>, << Attr_test >>, << Attr_context >>},
        n \in {S_fetch, S_main}, r \in BOOLEAN, v \in BOOLEAN,
        out \in {None, Some(Type_anyhow_Result), Some(Type_Result)} }

\* A function directly inside an impl block is an ImplItemFn
FnKindIn(parent) == IF parent \in {"ImplTrait", "Impl"} THEN "ImplFn" ELSE "Fn"

\* Place(chain, parent, d): declaration d under the scopes of chain, the
\* outermost of which is itself directly inside a scope of kind parent
RECURSIVE Place(_, _, _)
Place(chain, parent, d) ==
    IF chain = << >> THEN [d EXCEPT !.kind = FnKindIn(parent)]
    ELSE LET inner == << Place(Tail(chain), Head(chain), d) >>
         IN  CASE Head(chain) = "ModTest" -> ItemMod(<< Attr_cfg_test >>, S_tests, inner)
               [] Head(chain) = "ModNotTest" -> ItemMod(<< Attr_cfg_not_test >>, S_tests, inner)
               [] Head(chain) = "ImplTrait" -> ItemImpl(TRUE, inner)
               [] Head(chain) = "Impl" -> ItemImpl(FALSE, inner)
               [] OTHER -> FnItem(FnKindIn(parent), << >>, S_outer, FALSE, FALSE, 5,
                                  None, inner, << >>)

\* fn after() -> anyhow::Result<T>, on line 9
AfterDecl ==
    FnItem("Fn", << >>, S_after, FALSE, FALSE, 9, Some(Type_anyhow_Result), << >>, << >>)

UnattributedUnits ==
    { imports \o << Place(c, "File", d) >> \o after :
        imports \in {<< >>, << Use_anyhow_Result >>},
        c \in ScopeChains, d \in UnattributedDecls,
        after \in {<< >>, << AfterDecl >>} }

InitUnattributed ==
    /\ RunIdle
    /\ all_annotated = << >>
    /\ index = EmptyIndex
    /\ syntax \in UnattributedUnits
    /\ file_path = File_my
    /\ results = << >>
    /\ visited = FALSE

UnattributedFileParsed ==
    /\ ~visited
    /\ results' = unattributed_check_parsed(file_path, syntax)
    /\ visited' = TRUE
    /\ UNCHANGED << runVars, index, syntax, file_path >>

NextUnattributed == UnattributedFileParsed

SpecUnattributed == InitUnattributed /\ [][NextUnattributed]_vars

(***************************************************************************)
(* Properties of the unattributed detector (checked under SpecUnattributed)*)
(***************************************************************************)
\* The item that holds the declaration under test: the first item of the
\* unit that is not a use
PlacedItem == IF syntax[1].kind = "Use" THEN syntax[2] ELSE syntax[1]
HasUseAnyhowResult == syntax[1] = Use_anyhow_Result

\* The declaration under test: the innermost item of the placed one
RECURSIVE Innermost(_)
Innermost(item) == IF item.items = << >> THEN item ELSE Innermost(item.items[1])
TheDecl == Innermost(PlacedItem)

\* Some module enclosing the declaration carries #[cfg(test)]
RECURSIVE UnderCfgTestMod(_)
UnderCfgTestMod(item) ==
    /\ item.items # << >>
    /\ \/ (item.kind = "Mod" /\ \E i \in 1..Len(item.attrs) : item.attrs[i] = Attr_cfg_test)
       \/ UnderCfgTestMod(item.items[1])

\* Some impl block enclosing the declaration implements a trait
RECURSIVE UnderTraitImpl(_)
UnderTraitImpl(item) ==
    /\ item.items # << >>
    /\ \/ (item.kind = "Impl" /\ item.trait_)
       \/ UnderTraitImpl(item.items[1])

\* The declaration returns anyhow::Result<T>, or Result<T> with
\* `use anyhow::Result;` at the top of the unit
ReturnsRecognizedShape ==
    \/ TheDecl.output = Some(Type_anyhow_Result)
    \/ (TheDecl.output = Some(Type_Result) /\ HasUseAnyhowResult)

\* The declaration carries no annotation marker
IsUnannotated == \A i \in 1..Len(TheDecl.attrs) : TheDecl.attrs[i] # Attr_context

\* How many findings report the declaration under test
FindingsForDecl ==
    Cardinality({ i \in 1..Len(results) :
                    /\ results[i].name = TheDecl.name
                    /\ results[i].line = TheDecl.line
                    /\ results[i].file = file_path })

\* C10 as stated: an unannotated function of a recognized fallible shape
\* yields no finding under a #[cfg(test)] module or under an impl of a trait,
\* and exactly one finding outside both.
C10_ExcludedScopes ==
    (visited /\ IsUnannotated /\ ReturnsRecognizedShape) =>
        FindingsForDecl =
            IF UnderCfgTestMod(PlacedItem) \/ UnderTraitImpl(PlacedItem) THEN 0 ELSE 1

\* C10 amended: the same, for a function that is not named main and carries
\* no test attribute.
C10_ExcludedScopesButMainAndTests ==
    ( /\ visited /\ IsUnannotated /\ ReturnsRecognizedShape
      /\ TheDecl.name # S_main
      /\ \A i \in 1..Len(TheDecl.attrs) : TheDecl.attrs[i] # Attr_test )
    => FindingsForDecl =
            IF UnderCfgTestMod(PlacedItem) \/ UnderTraitImpl(PlacedItem) THEN 0 ELSE 1

\* An inherent-impl method in a #[cfg(not(test))] module is flagged, and so
\* is the function after it
C10_Witness ==
    /\ visited /\ IsUnannotated /\ ReturnsRecognizedShape
    /\ TheDecl.name = S_fetch
    /\ TheDecl.kind = "ImplFn"
    /\ PlacedItem.kind = "Mod"
    /\ ~UnderCfgTestMod(PlacedItem)
    /\ ~UnderTraitImpl(PlacedItem)
    /\ Len(results) = 2
    /\ FindingsForDecl = 1

\* An item and every item nested in it
RECURSIVE ItemsWithin(_)
ItemsWithin(item) ==
    {item} \cup UNION { ItemsWithin(item.items[i]) : i \in 1..Len(item.items) }

\* The detector as it stands when it comes to an item: anyhow::Result in
\* scope, the two flags as given, nothing recorded yet
CheckerAt(in_cfg_test, in_trait_impl) ==
    UnattributedChecker(file_path, TRUE, in_cfg_test, in_trait_impl, << >>)

\* The declaration under test is one that is recorded whenever both flags
\* are false where it is visited
IsFlagProbe ==
    /\ IsUnannotated
    /\ TheDecl.name # S_main
    /\ \A i \in 1..Len(TheDecl.attrs) : TheDecl.attrs[i] # Attr_test
    /\ TheDecl.output \in {Some(Type_anyhow_Result), Some(Type_Result)}

\* Whether the walk of the placed item, entered with the given flags,
\* records the declaration under test
ProbeRecorded(in_cfg_test, in_trait_impl) ==
    \E i \in 1..Len(unattributed_visit_item(CheckerAt(in_cfg_test, in_trait_impl),
                                            PlacedItem).results) :
        unattributed_visit_item(CheckerAt(in_cfg_test, in_trait_impl),
                                PlacedItem).results[i].line = TheDecl.line

\* C27: where a declaration is visited the test-scope flag is true iff a
\* module around it carries #[cfg(test)] and the trait-impl flag is true iff an
\* impl block around it implements a trait, whatever the flags were on entry
\* to the outermost scope (a scope nested in an excluded one stays excluded);
\* on leaving any item both flags are what they were on entry, so the
\* declaration that follows the scopes is flagged again.
C27_ScopedFlags ==
    visited =>
        /\ \A t \in BOOLEAN, m \in BOOLEAN :
              /\ \A item \in ItemsWithin(PlacedItem) :
                    LET left == unattributed_visit_item(CheckerAt(t, m), item)
                    IN  left.in_cfg_test = t /\ left.in_trait_impl = m
              /\ IsFlagProbe =>
                    (ProbeRecorded(t, m) <=>
                        ~(t \/ UnderCfgTestMod(PlacedItem) \/ m \/ UnderTraitImpl(PlacedItem)))
        /\ Last(syntax) = AfterDecl =>
              (results # << >> /\ Last(results).name = S_after /\ Last(results).line = 9)

\* An inherent impl in a #[cfg(test)] module: its method is not recorded, the
\* function after the module is
C27_Witness ==
    /\ visited
    /\ IsFlagProbe
    /\ PlacedItem.kind = "Mod"
    /\ UnderCfgTestMod(PlacedItem)
    /\ PlacedItem.items[1].kind = "Impl"
    /\ ~PlacedItem.items[1].trait_
    /\ TheDecl.kind = "ImplFn"
    /\ Last(syntax) = AfterDecl
    /\ Len(results) = 1
    /\ results[1].name = S_after

\* A #[cfg(not(test))] module in a #[cfg(test)] module stays excluded
C27_WitnessNestedModule ==
    /\ visited
    /\ IsFlagProbe
    /\ PlacedItem.kind = "Mod"
    /\ PlacedItem.attrs = << Attr_cfg_test >>
    /\ PlacedItem.items[1].kind = "Mod"
    /\ PlacedItem.items[1].attrs = << Attr_cfg_not_test >>
    /\ FindingsForDecl = 0

(***************************************************************************)
(* SpecSignature: the unattributed detector on one unit holding file-level *)
(* use and type items and one top-level function.  The imports, the alias, *)
(* the function's attributes and its return type are drawn in Init; the    *)
(* action is check_file's walk (unattributed.rs 42-57).                    *)
(***************************************************************************)
MaxTypeArgs == 2   \* number of type arguments of a return type
MaxSegs == 3       \* number of segments of an attribute path

S_inner == << "i", "n", "n", "e", "r" >>
S_Context == << "C", "o", "n", "t", "e", "x", "t" >>
S_Error == << "E", "r", "r", "o", "r" >>
S_io == << "i", "o" >>
S_sub == << "s", "u", "b" >>
S_tokio == << "t", "o", "k", "i", "o" >>
S_result == << "r", "e", "s", "u", "l", "t" >>
S_Other == << "O", "t", "h", "e", "r" >>

UseName(ident) == UseTree("Name", ident, << >>, << >>)
UseRename(ident, rename) == UseTree("Rename", ident, rename, << >>)
UseGlob == UseTree("Glob", << >>, << >>, << >>)
UseGroup(items) == UseTree("Group", << >>, << >>, items)
UsePath(ident, tree) == UseTree("Path", ident, << >>, << tree >>)

\* The file-level items other than the function, as far as imports go
SignatureImports ==
    { << >>,
      \* use anyhow::Result;
      << Use_anyhow_Result >>,
      \* use anyhow::Result as X;
      << ItemUse(UsePath(S_anyhow, UseRename(S_Result, S_x))) >>,
      \* use anyhow::{Context, Result};
      << ItemUse(UsePath(S_anyhow, UseGroup(<< UseName(S_Context), UseName(S_Result) >>))) >>,
      \* use anyhow::*;
      << ItemUse(UsePath(S_anyhow, UseGlob)) >>,
      \* use anyhow::Context;
      << ItemUse(UsePath(S_anyhow, UseName(S_Context))) >>,
      \* use anyhow::{Context, Error};
      << ItemUse(UsePath(S_anyhow, UseGroup(<< UseName(S_Context), UseName(S_Error) >>))) >>,
      \* use anyhow::Error as Result;
      << ItemUse(UsePath(S_anyhow, UseRename(S_Error, S_Result))) >>,
      \* use anyhow::sub::Result;
      << ItemUse(UsePath(S_anyhow, UsePath(S_sub, UseName(S_Result)))) >>,
      \* use std::Result;
      << ItemUse(UsePath(S_std, UseName(S_Result))) >>,
      \* use std::*;
      << ItemUse(UsePath(S_std, UseGlob)) >>,
      \* use std::io; use anyhow::Result;
      << ItemUse(UsePath(S_std, UseName(S_io))), Use_anyhow_Result >>,
      \* mod inner { use anyhow::Result; }
      << ItemMod(<< >>, S_inner, << Use_anyhow_Result >>) >> }

\* anyhow::Result<..>, std::result::Result<..>, Result<..>, Other<..>, (T, E)
SignatureAliasTypes ==
    { TypePath(<< S_anyhow, S_Result >>, TRUE, 1, 0),
      TypePath(<< S_std, S_result, S_Result >>, TRUE, 2, 0),
      TypePath(<< S_Result >>, TRUE, 2, 0),
      TypePath(<< S_Other >>, TRUE, 1, 0),
      TypeOther }

\* The file-level type aliases: none, type Result<T> = ..;, type Other<T> = ..;
\* and mod inner { type Result<T> = ..; }
SignatureAliases ==
    { << >> }
    \cup { << ItemType(S_Result, ty) >> : ty \in SignatureAliasTypes }
    \cup { << ItemType(S_Other, TypePath(<< S_std, S_result, S_Result >>, TRUE, 2, 0)) >>,
           << ItemMod(<< >>, S_inner,
                      << ItemType(S_Result, TypePath(<< S_std, S_result, S_Result >>, TRUE, 2, 0)) >>) >> }

\* The return types: none, a reference or tuple, and the paths anyhow::Result,
\* Result and io::Result without arguments, with 0..MaxTypeArgs type
\* arguments, and with a lifetime before one type argument or alone
SignatureOutputs ==
    { None, Some(TypeOther) }
    \cup { Some(TypePath(segs, FALSE, 0, 0)) :
             segs \in { << S_anyhow, S_Result >>, << S_Result >> } }
    \cup { Some(TypePath(segs, TRUE, n, 0)) :
             segs \in { << S_anyhow, S_Result >>, << S_Result >>, << S_io, S_Result >> },
             n \in 0..MaxTypeArgs }
    \cup { Some(TypePath(<< S_Result >>, TRUE, n, 1)) : n \in 0..1 }

\* Attribute paths of 1..MaxSegs segments
SignatureAttrPaths ==
    { path \in SeqsUpTo({S_test, S_tokio}, MaxSegs) : path # << >> }

\* The function's attributes: none, one of the paths above, #[inline] before
\* such a one
SignatureAttrs ==
    { << >> }
    \cup { << Attribute(path, "Path", << >>) >> : path \in SignatureAttrPaths }
    \cup { << Attribute(<< S_inline >>, "Path", << >>), Attribute(path, "Path", << >>) >> :
             path \in { << S_test >>, << S_tokio, S_test >>, << S_tokio, S_tokio, S_test >> } }

\* fn fetch() on line 7
SignatureDecl(attrs, out) ==
    FnItem("Fn", attrs, S_fetch, FALSE, FALSE, 7, out, << >>, << >>)

\* The file: the imports and the alias before the function, or after it.
\* Every attribute list goes with the two recognized return types and with
\* or without the import; every return type goes with every import and alias.
SignatureUnits ==
    { imports \o << SignatureDecl(attrs, out) >> :
        imports \in {<< >>, << Use_anyhow_Result >>},
        attrs \in SignatureAttrs,
        out \in {Some(Type_anyhow_Result), Some(Type_Result)} }
    \cup
    { IF first THEN imports \o alias \o << SignatureDecl(<< >>, out) >>
               ELSE << SignatureDecl(<< >>, out) >> \o alias \o imports :
        imports \in SignatureImports, alias \in SignatureAliases,
        out \in SignatureOutputs, first \in BOOLEAN }

InitSignature ==
    /\ RunIdle
    /\ all_annotated = << >>
    /\ index = EmptyIndex
    /\ syntax \in SignatureUnits
    /\ file_path = File_my
    /\ results = << >>
    /\ visited = FALSE

SignatureFileParsed ==
    /\ ~visited
    /\ results' = unattributed_check_parsed(file_path, syntax)
    /\ visited' = TRUE
    /\ UNCHANGED << runVars, index, syntax, file_path >>

NextSignature == SignatureFileParsed

SpecSignature == InitSignature /\ [][NextSignature]_vars

(***************************************************************************)
(* Properties of the recognized return shape (checked under SpecSignature) *)
(***************************************************************************)
\* The function of the unit, its return type and whether it was recorded
SigDecl == syntax[CHOOSE i \in 1..Len(syntax) : syntax[i].kind = "Fn"]
SigReturns(segs) ==
    /\ SigDecl.output # None
    /\ SigDecl.output[1].kind = "Path"
    /\ SigDecl.output[1].segs = segs
SigTypeArgs == SigDecl.output[1].type_args
SigRecorded ==
    \E i \in 1..Len(results) : results[i].name = SigDecl.name /\ results[i].line = SigDecl.line

\* C11: a recorded declaration's return type is a path whose last segment
\* has exactly one type argument, for Result and for anyhow::Result alike.
C11_OnlySingleTypeArgument ==
    (visited /\ SigRecorded) =>
        /\ SigDecl.output # None
        /\ SigDecl.output[1].kind = "Path"
        /\ SigDecl.output[1].bracketed
        /\ SigTypeArgs = 1

\* The function returns the bare Result with one type argument and carries
\* no attribute
SigReturnsBareResultT ==
    /\ SigDecl.attrs = << >>
    /\ SigReturns(<< S_Result >>)
    /\ SigDecl.output[1].bracketed
    /\ SigTypeArgs = 1

\* What follows anyhow:: is Result, Result as X, * or a group holding one of these
ImportsResult(tree) ==
    \/ tree.kind = "Name" /\ tree.ident = S_Result
    \/ tree.kind = "Rename" /\ tree.ident = S_Result
    \/ tree.kind = "Glob"

\* A top-level use item in the direct, renamed, grouped or wildcard form
HasFileScopeImport ==
    \E i \in 1..Len(syntax) :
        /\ syntax[i].kind = "Use"
        /\ syntax[i].tree[1].kind = "Path"
        /\ syntax[i].tree[1].ident = S_anyhow
        /\ LET sub == syntax[i].tree[1].sub[1]
           IN  \/ ImportsResult(sub)
               \/ (sub.kind = "Group" /\ \E j \in 1..Len(sub.sub) : ImportsResult(sub.sub[j]))

\* The top-level type aliases named Result
ResultAliases == { i \in 1..Len(syntax) : syntax[i].kind = "Type" /\ syntax[i].name = S_Result }
AliasIs(i, segs) == syntax[i].ty[1].kind = "Path" /\ syntax[i].ty[1].segs = segs

\* A top-level alias named Result whose right-hand side is neither
\* anyhow::Result nor the bare Result
HasOverridingAlias ==
    \E i \in ResultAliases : ~AliasIs(i, << S_anyhow, S_Result >>) /\ ~AliasIs(i, << S_Result >>)

\* C12: a function returning the bare Result<T> is recorded iff the file has
\* a top-level import of anyhow's Result (direct, renamed, grouped or
\* wildcard) and no overriding alias; an import inside a module does not count.
C12_BareResultNeedsFileScopeImport ==
    (visited /\ SigReturnsBareResultT) =>
        (SigRecorded <=> (HasFileScopeImport /\ ~HasOverridingAlias))

C12_Witness ==
    /\ visited
    /\ SigReturnsBareResultT
    /\ SigRecorded
    /\ \E i \in 1..Len(syntax) :
          /\ syntax[i].kind = "Use"
          /\ syntax[i].tree[1].sub[1].kind = "Group"
    /\ ResultAliases = {}

\* C13 as stated: with a top-level alias named Result whose right-hand side
\* is not anyhow::Result, a function returning the bare Result is not recorded.
C13_AliasOverrides ==
    ( /\ visited
      /\ SigReturns(<< S_Result >>)
      /\ \E i \in ResultAliases : ~AliasIs(i, << S_anyhow, S_Result >>) )
    => ~SigRecorded

\* The unit without its top-level type aliases
WithoutAliases == SelectSeq(syntax, LAMBDA item : item.kind # "Type")

\* C13, amended: an alias named Result whose right-hand side is neither
\* anyhow::Result nor the bare Result keeps every function returning the bare
\* Result from being recorded; aliases of any other kind change nothing; a
\* function returning anyhow::Result<..> is recorded with or without aliases.
C13_AliasOverridesUnlessResult ==
    visited =>
        /\ (HasOverridingAlias /\ SigReturns(<< S_Result >>)) => ~SigRecorded
        /\ ~HasOverridingAlias =>
              results = unattributed_check_parsed(file_path, WithoutAliases)
        /\ (SigReturns(<< S_anyhow, S_Result >>) /\ SigDecl.attrs = << >>) => SigRecorded

C13_Witness ==
    /\ visited
    /\ SigReturnsBareResultT
    /\ \E i \in ResultAliases : AliasIs(i, << S_Result >>)
    /\ HasFileScopeImport
    /\ SigRecorded

\* The attribute's path is test, or has two segments the second of which is test
IsTestMarker(attr) ==
    \/ attr.path = << S_test >>
    \/ (Len(attr.path) = 2 /\ attr.path[2] = S_test)

\* C14: a declaration with an attribute test or x::test is never recorded; an
\* attribute path of three or more segments ending in test exempts nothing.
C14_TestAttributeExempts ==
    visited =>
        /\ (\E i \in 1..Len(SigDecl.attrs) : IsTestMarker(SigDecl.attrs[i])) => ~SigRecorded
        /\ ( /\ SigReturns(<< S_anyhow, S_Result >>)
             /\ \E i \in 1..Len(SigDecl.attrs) :
                   /\ Len(SigDecl.attrs[i].path) >= 3
                   /\ Last(SigDecl.attrs[i].path) = S_test
             /\ \A i \in 1..Len(SigDecl.attrs) : ~IsTestMarker(SigDecl.attrs[i]) )
           => SigRecorded

C14_Witness ==
    /\ visited
    /\ SigDecl.attrs # << >>
    /\ SigDecl.attrs[1].path = << S_tokio, S_tokio, S_test >>
    /\ SigRecorded

\* The printable ASCII characters of codes 32..95 and 97..126, in code order
AsciiTo95 == <<
    " ", "!", "\"", "#", "$", "%", "&", "'", "(", ")", "*", "+", ",", "-", ".", "/",
    "0", "1", "2", "3", "4", "5", "6", "7", "8", "9", ":", ";", "<", "=", ">", "?",
    "@", "A", "B", "C", "D", "E", "F", "G", "H", "I", "J", "K", "L", "M", "N", "O",
    "P", "Q", "R", "S", "T", "U", "V", "W", "X", "Y", "Z", "[", "\\", "]", "^", "_" >>
AsciiFrom97 == <<
    "a", "b", "c", "d", "e", "f", "g", "h", "i", "j", "k", "l", "m", "n", "o", "p",
    "q", "r", "s", "t", "u", "v", "w", "x", "y", "z", "{", "|", "}", "~" >>

\* The byte of each of these characters
CodeOf ==
    [c \in { AsciiTo95[i] : i \in 1..Len(AsciiTo95) }
           \cup { AsciiFrom97[i] : i \in 1..Len(AsciiFrom97) } |->
        IF \E i \in 1..Len(AsciiTo95) : AsciiTo95[i] = c
        THEN 31 + CHOOSE i \in 1..Len(AsciiTo95) : AsciiTo95[i] = c
        ELSE 96 + CHOOSE i \in 1..Len(AsciiFrom97) : AsciiFrom97[i] = c]

CharCode(c) == CodeOf[c]

\* Ord::cmp on str: -1, 0 or 1, byte by byte
RECURSIVE StrCmp(_, _)
StrCmp(a, b) ==
    CASE a = << >> /\ b = << >> -> 0
      [] a = << >> -> -1
      [] b = << >> -> 1
      [] CharCode(Head(a)) < CharCode(Head(b)) -> -1
      [] CharCode(Head(a)) > CharCode(Head(b)) -> 1
      [] OTHER -> StrCmp(Tail(a), Tail(b))

\* a.file.cmp(&b.file).then(a.line.cmp(&b.line)) is Less, on keys <<file, line>>
KeyLess(k1, k2) ==
    \/ StrCmp(k1[1], k2[1]) < 0
    \/ (StrCmp(k1[1], k2[1]) = 0 /\ k1[2] < k2[2])

\* slice::sort_by, a stable sort: s in the order of keys (keys[i] is the key
\* of s[i]), elements of equal keys in their order in s
StableSort(s, keys) ==
    LET n == Len(s)
        rank == [i \in 1..n |->
                    1 + Cardinality({ j \in 1..n :
                          \/ KeyLess(keys[j], keys[i])
                          \/ (~KeyLess(keys[i], keys[j]) /\ j < i) })]
    IN  [r \in 1..n |-> s[CHOOSE i \in 1..n : rank[i] = r]]

\* Faulty variant: the list is left in emission order
SortDoubleContextUnsorted(s) == s

\* main.rs 181-185
SortDoubleContext(s) ==
    StableSort(s, [i \in 1..Len(s) |-> << s[i].call_file, s[i].call_line >>])

\* main.rs 197
SortUnattributed(s) ==
    StableSort(s, [i \in 1..Len(s) |-> << s[i].file, s[i].line >>])

(***************************************************************************)
(* Files.  A file is its path, the pass in which reading it fails          *)
(* (fails_in: 1, 2, 3, or 0 when every read succeeds), whether its text    *)
(* parses, and the items of the parsed unit.                               *)
(***************************************************************************)
SourceFile(path, fails_in, parses, items) ==
    [path |-> path, fails_in |-> fails_in, parses |-> parses, items |-> items]

\* Result<T>
Ok(v) == [ok |-> TRUE, value |-> v, err |-> << >>]
Err(e) == [ok |-> FALSE, value |-> << >>, err |-> e]

\* One layer of an anyhow error: the message and the path it was formatted with
ErrorLayer(msg, path) == [msg |-> msg, path |-> path]

\* Result::with_context: a new outermost layer on an Err, nothing on an Ok
WithContext(r, msg, path) ==
    IF r.ok THEN r ELSE Err(<< ErrorLayer(msg, path) >> \o r.err)

\* std::fs::read_to_string(path).with_context(|| format!("Reading {}", ..)):
\* Ok(whether the text parses), or the error
ReadToString(file, pass) ==
    IF file.fails_in = pass
    THEN Err(<< ErrorLayer("Reading", file.path), ErrorLayer("io", << >>) >>)
    ELSE Ok(file.parses)

\* Faulty variant: the items are taken whether or not the text parses
collect_from_file_lenient(file) ==
    LET source == ReadToString(file, 1)
    IN  IF ~source.ok THEN Err(source.err)
        ELSE Ok(CollectItems(file.path, file.items))

collect_from_file(file) ==
    LET source == ReadToString(file, 1)
    IN  IF ~source.ok THEN Err(source.err)
        ELSE IF ~source.value THEN Ok(<< >>)
        ELSE Ok(CollectItems(file.path, file.items))

checker_check_file(file, idx) ==
    LET source == ReadToString(file, 2)
    IN  IF ~source.ok THEN Err(source.err)
        ELSE IF ~source.value THEN Ok(<< >>)
        ELSE Ok(CheckItems(file.path, idx, file.items))

unattributed_check_file(file) ==
    LET source == ReadToString(file, 3)
    IN  IF ~source.ok THEN Err(source.err)
        ELSE IF ~source.value THEN Ok(<< >>)
        ELSE Ok(unattributed_check_parsed(file.path, file.items))

(***************************************************************************)
(* Spec: run() and main() of main.rs.  The file set, its enumeration       *)
(* order, the one read that fails (if any) and the --unattributed level    *)
(* are drawn in Init; each loop iteration of run() is one action.          *)
(***************************************************************************)
MaxFiles == 3      \* number of files in the file set

File_a == << "s", "r", "c", "/", "a", ".", "r", "s" >>
File_b == << "s", "r", "c", "/", "b", ".", "r", "s" >>
File_c == << "s", "r", "c", "/", "c", ".", "r", "s" >>
File_d == << "s", "r", "c", "/", "d", ".", "r", "s" >>
S_run == << "r", "u", "n" >>

\* fetch(args).context("X") with the combinator on the given line
FetchContext(args, line) ==
    ExprMethodCall(ExprCall(ExprPath(<< S_fetch >>), args), S_context, << ExprLit(Lit_X) >>, line)

\* src/a.rs:   fn run() -> anyhow::Result<T> {       (line 1)
\*                 fetch().context("X")              (line 2)
Unit_a ==
    << FnItem("Fn", << >>, S_run, FALSE, FALSE, 1, Some(Type_anyhow_Result), << >>,
              << FetchContext(<< >>, 2) >>) >>

\* src/b.rs:   #[context("Ctx")]
\*             pub fn fetch() -> anyhow::Result<T>   (line 3)
Unit_b ==
    << FnItem("Fn", << Attr_context >>, S_fetch, FALSE, TRUE, 3, Some(Type_anyhow_Result),
              << >>, << >>) >>

\* src/d.rs:   impl X {
\*                 #[context("Del")]
\*                 fn fetch(&self) -> anyhow::Result<T> {  (line 3)
\*                     fetch(
\*                         fetch().context("X")            (line 5)
\*                     ).context("X")                      (line 6)
\*                 }
\*                 fn after(&self) -> anyhow::Result<T>    (line 9)
Unit_d ==
    << ItemImpl(FALSE,
         << FnItem("ImplFn", << Attribute(<< S_context >>, "List", << Token("Literal", Lit_Del) >>) >>,
                   S_fetch, TRUE, FALSE, 3,
                   Some(Type_anyhow_Result), << >>,
                   << FetchContext(<< FetchContext(<< >>, 5) >>, 6) >>),
            [AfterDecl EXCEPT !.kind = "ImplFn", !.receiver = TRUE] >>) >>

\* The files there are; src/c.rs does not parse (its items are what a parse
\* of its text would have given)
RunFiles ==
    { SourceFile(File_a, 0, TRUE, Unit_a), SourceFile(File_b, 0, TRUE, Unit_b),
      SourceFile(File_c, 0, FALSE, Unit_b \o Unit_a), SourceFile(File_d, 0, TRUE, Unit_d) }

\* The file sets in their enumeration orders: no file twice
FileSeqs ==
    { fs \in SeqsUpTo(RunFiles, MaxFiles) :
        \A i, j \in 1..Len(fs) : i # j => fs[i] # fs[j] }

Init ==
    /\ cli_unattributed \in {"deny", "allow"}
    /\ \E fs \in FileSeqs : \E bad \in 0..Len(fs) : \E pass \in 1..3 :
          all_files = [i \in 1..Len(fs) |->
                         [fs[i] EXCEPT !.fails_in = IF i = bad THEN pass ELSE 0]]
    /\ pc = "discover"
    /\ cursor = 0
    /\ all_annotated = << >>
    /\ index = EmptyIndex
    /\ all_double_context = << >>
    /\ all_unattributed = << >>
    /\ error = None
    /\ reported = None
    /\ exit_code = None
    /\ syntax = << >>
    /\ file_path = << >>
    /\ results = << >>
    /\ visited = FALSE

\* main.rs 131-140: discover_source_dirs succeeded and the files were enumerated
DiscoverOk ==
    /\ pc = "discover"
    /\ pc' = "collect"
    /\ cursor' = 1
    /\ UNCHANGED << cli_unattributed, all_files, all_annotated, all_double_context,
                    all_unattributed, error, reported, exit_code, index, visitorVars >>

\* main.rs 131 (104): cargo metadata failed
DiscoverFail ==
    /\ pc = "discover"
    /\ error' = Some(<< ErrorLayer("Running cargo metadata", << >>) >>)
    /\ pc' = "returned"
    /\ UNCHANGED << cli_unattributed, all_files, cursor, all_annotated, all_double_context,
                    all_unattributed, reported, exit_code, index, visitorVars >>

\* Faulty variant: the entries of a file go before those collected so far
CollectFilePrepends ==
    /\ pc = "collect"
    /\ cursor <= Len(all_files)
    /\ LET file == all_files[cursor]
           entries == WithContext(collect_from_file(file), "Collecting from", file.path)
       IN  IF entries.ok
           THEN /\ all_annotated' = entries.value \o all_annotated
                /\ cursor' = cursor + 1
                /\ UNCHANGED << pc, error >>
           ELSE /\ error' = Some(entries.err)
                /\ pc' = "returned"
                /\ UNCHANGED << all_annotated, cursor >>
    /\ UNCHANGED << cli_unattributed, all_files, all_double_context, all_unattributed,
                    reported, exit_code, index, visitorVars >>

\* main.rs 152-156: one iteration of pass 1
CollectFile ==
    /\ pc = "collect"
    /\ cursor <= Len(all_files)
    /\ LET file == all_files[cursor]
           entries == WithContext(collect_from_file(file), "Collecting from", file.path)
       IN  IF entries.ok
           THEN /\ all_annotated' = all_annotated \o entries.value
                /\ cursor' = cursor + 1
                /\ UNCHANGED << pc, error >>
           ELSE /\ error' = Some(entries.err)
                /\ pc' = "returned"
                /\ UNCHANGED << all_annotated, cursor >>
    /\ UNCHANGED << cli_unattributed, all_files, all_double_context, all_unattributed,
                    reported, exit_code, index, visitorVars >>

\* The index built from the entries of the files collected so far
BuildIndexEarly ==
    /\ pc = "collect"
    /\ index' = build_index(all_annotated)
    /\ pc' = "check"
    /\ cursor' = 1
    /\ UNCHANGED << cli_unattributed, all_files, all_annotated, all_double_context,
                    all_unattributed, error, reported, exit_code, visitorVars >>

\* main.rs 170: the loop of pass 1 is over
BuildIndex ==
    /\ pc = "collect"
    /\ cursor > Len(all_files)
    /\ index' = build_index(all_annotated)
    /\ pc' = "check"
    /\ cursor' = 1
    /\ UNCHANGED << cli_unattributed, all_files, all_annotated, all_double_context,
                    all_unattributed, error, reported, exit_code, visitorVars >>

\* Faulty variant: a file that cannot be read is passed over
CheckFileSkipsUnreadable ==
    /\ pc = "check"
    /\ cursor <= Len(all_files)
    /\ LET file == all_files[cursor]
           issues == checker_check_file(file, index)
       IN  all_double_context' =
               all_double_context \o (IF issues.ok THEN issues.value ELSE << >>)
    /\ cursor' = cursor + 1
    /\ UNCHANGED << cli_unattributed, all_files, pc, all_annotated, all_unattributed,
                    error, reported, exit_code, index, visitorVars >>

\* main.rs 174-178: one iteration of pass 2
CheckFile ==
    /\ pc = "check"
    /\ cursor <= Len(all_files)
    /\ LET file == all_files[cursor]
           issues == WithContext(checker_check_file(file, index), "Checking", file.path)
       IN  IF issues.ok
           THEN /\ all_double_context' = all_double_context \o issues.value
                /\ cursor' = cursor + 1
                /\ UNCHANGED << pc, error >>
           ELSE /\ error' = Some(issues.err)
                /\ pc' = "returned"
                /\ UNCHANGED << all_double_context, cursor >>
    /\ UNCHANGED << cli_unattributed, all_files, all_annotated, all_unattributed,
                    reported, exit_code, index, visitorVars >>

\* main.rs 181-189: the loop of pass 2 is over
SortDoubleContextStep ==
    /\ pc = "check"
    /\ cursor > Len(all_files)
    /\ all_double_context' = SortDoubleContext(all_double_context)
    /\ pc' = IF cli_unattributed = "deny" THEN "unattributed" ELSE "report"
    /\ cursor' = 1
    /\ UNCHANGED << cli_unattributed, all_files, all_annotated, all_unattributed,
                    error, reported, exit_code, index, visitorVars >>

\* main.rs 190-194: one iteration of pass 3
UnattributedFile ==
    /\ pc = "unattributed"
    /\ cursor <= Len(all_files)
    /\ LET file == all_files[cursor]
           issues == WithContext(unattributed_check_file(file),
                                 "Checking unattributed in", file.path)
       IN  IF issues.ok
           THEN /\ all_unattributed' = all_unattributed \o issues.value
                /\ cursor' = cursor + 1
                /\ UNCHANGED << pc, error >>
           ELSE /\ error' = Some(issues.err)
                /\ pc' = "returned"
                /\ UNCHANGED << all_unattributed, cursor >>
    /\ UNCHANGED << cli_unattributed, all_files, all_annotated, all_double_context,
                    reported, exit_code, index, visitorVars >>

\* main.rs 197: the loop of pass 3 is over
SortUnattributedStep ==
    /\ pc = "unattributed"
    /\ cursor > Len(all_files)
    /\ all_unattributed' = SortUnattributed(all_unattributed)
    /\ pc' = "report"
    /\ UNCHANGED << cli_unattributed, all_files, cursor, all_annotated, all_double_context,
                    error, reported, exit_code, index, visitorVars >>

\* main.rs 207-223: the lists go to the reporter and run() returns Ok
Report ==
    /\ pc = "report"
    /\ reported' = Some([double_context |-> all_double_context,
                         unattributed |-> all_unattributed])
    /\ pc' = "returned"
    /\ UNCHANGED << cli_unattributed, all_files, cursor, all_annotated, all_double_context,
                    all_unattributed, error, exit_code, index, visitorVars >>

\* Faulty variant: the unattributed list is not looked at
found_issues_double_context_only == all_double_context # << >>

\* main.rs 207: found_issues
found_issues == all_double_context # << >> \/ all_unattributed # << >>

\* main.rs 226-240: main maps run()'s result to the exit status
Main ==
    /\ pc = "returned"
    /\ exit_code' = Some(IF error # None THEN 2 ELSE IF found_issues THEN 1 ELSE 0)
    /\ pc' = "exited"
    /\ UNCHANGED << cli_unattributed, all_files, cursor, all_annotated, all_double_context,
                    all_unattributed, error, reported, index, visitorVars >>

Next ==
    \/ DiscoverOk
    \/ DiscoverFail
    \/ CollectFile
    \/ BuildIndex
    \/ CheckFile
    \/ SortDoubleContextStep
    \/ UnattributedFile
    \/ SortUnattributedStep
    \/ Report
    \/ Main

Spec == Init /\ [][Next]_vars

(***************************************************************************)
(* Properties of the run (checked under Spec)                              *)
(***************************************************************************)
\* Every entry of every file that parses, in enumeration order
RECURSIVE EntriesOfFiles(_)
EntriesOfFiles(files) ==
    IF files = << >> THEN << >>
    ELSE (IF Head(files).parses
          THEN CollectItems(Head(files).path, Head(files).items) ELSE << >>)
         \o EntriesOfFiles(Tail(files))

\* The file of the given path is in the file set
InFileSet(path) == \E i \in 1..Len(all_files) : all_files[i].path = path

\* The run completed: no discovery or read failure
Completed == pc = "exited" /\ exit_code \in {Some(0), Some(1)}

\* While the matcher runs, the index is the index of all the files
C1_IndexComplete ==
    pc = "check" => index = build_index(EntriesOfFiles(all_files))

\* A completed run over src/a.rs (which calls fetch().context("X")) and
\* src/b.rs (which annotates fetch) reports that call, in either order
C1_CrossFileFinding ==
    (Completed /\ InFileSet(File_a) /\ InFileSet(File_b)) =>
        \E i \in 1..Len(all_double_context) :
            /\ all_double_context[i].call_file = File_a
            /\ all_double_context[i].def_file = File_b
            /\ all_double_context[i].function_name = S_fetch

\* A step taken once the index is built leaves the index as it is
C1_IndexFrozen == (pc # "collect") => (index' = index)

\* C1: the index is complete before the matcher processes its first file and
\* is not changed while it runs, so a call in one file of a function
\* annotated in another is found whatever the enumeration order.
C1_IndexBuiltBeforeMatching ==
    /\ [](C1_IndexComplete /\ C1_CrossFileFinding)
    /\ [][C1_IndexFrozen]_vars

\* The call site was enumerated before the file of the declaration
C1_Witness ==
    /\ Completed
    /\ Len(all_files) = 2
    /\ all_files[1].path = File_a
    /\ all_files[2].path = File_b
    /\ Len(all_double_context) = 1
    /\ all_double_context[1].def_file = File_b

\* What pass 2 emits over files with index idx, and what pass 3 emits:
\* the findings of every file that parses, in enumeration order
RECURSIVE EmittedDoubleContext(_, _)
EmittedDoubleContext(files, idx) ==
    IF files = << >> THEN << >>
    ELSE (IF Head(files).parses
          THEN CheckItems(Head(files).path, idx, Head(files).items) ELSE << >>)
         \o EmittedDoubleContext(Tail(files), idx)

RECURSIVE EmittedUnattributed(_)
EmittedUnattributed(files) ==
    IF files = << >> THEN << >>
    ELSE (IF Head(files).parses
          THEN unattributed_check_parsed(Head(files).path, Head(files).items) ELSE << >>)
         \o EmittedUnattributed(Tail(files))

\* The files enumerated before the i-th
Before(i) == SubSeq(all_files, 1, i - 1)

\* The number of the pass the run is in (0 before pass 1, 4 after pass 3)
PassOf(at) ==
    CASE at = "collect" -> 1
      [] at = "check" -> 2
      [] at = "unattributed" -> 3
      [] at = "report" -> 4
      [] OTHER -> 0

\* Reading the i-th file fails in a pass the run has (pass 3 runs under deny only)
Unreadable(i) ==
    /\ all_files[i].fails_in \in 1..3
    /\ all_files[i].fails_in = 3 => cli_unattributed = "deny"

DiscoveryFailed == error # None /\ error[1][1].msg = "Running cargo metadata"

\* C15: when reading a file fails in a pass, the run stops at that file: no
\* later file and no later pass is processed, nothing is handed to the
\* reporter, the error carries the file's path and the exit status is 2.
C15_ReadFailureAborts ==
    \A i \in 1..Len(all_files) :
        Unreadable(i) =>
            LET p == all_files[i].fails_in
            IN  /\ reported = None
                /\ PassOf(pc) <= p
                /\ PassOf(pc) = p => cursor <= i
                /\ p = 1 => (index = EmptyIndex /\ all_double_context = << >>)
                /\ p <= 2 => all_unattributed = << >>
                /\ exit_code # None => exit_code = Some(2)
                /\ (pc \in {"returned", "exited"} /\ ~DiscoveryFailed) =>
                      /\ error # None
                      /\ \A k \in 1..2 : error[1][k].path = all_files[i].path
                      /\ cursor = i
                      /\ p = 1 => all_annotated = EntriesOfFiles(Before(i))
                      /\ p = 2 => all_double_context = EmittedDoubleContext(Before(i), index)
                      /\ p = 3 => all_unattributed = EmittedUnattributed(Before(i))

C15_Witness ==
    /\ exit_code = Some(2)
    /\ reported = None
    /\ \E i \in 2..Len(all_files) : all_files[i].fails_in = 3 /\ i < Len(all_files)
    /\ all_double_context # << >>
    /\ all_unattributed # << >>

\* The files that parse, in enumeration order
ParsedOnly(files) == SelectSeq(files, LAMBDA f : f.parses)

\* The lists a run over files ends with when every read succeeds
FinalDoubleContext(files) ==
    SortDoubleContext(EmittedDoubleContext(files, build_index(EntriesOfFiles(files))))
FinalUnattributed(files) ==
    IF cli_unattributed = "deny" THEN SortUnattributed(EmittedUnattributed(files)) ELSE << >>

\* C16: a file that does not parse is no error, and the lists the run ends
\* with are those of the run over the file set without it.
C16_ParseFailureContributesNothing ==
    /\ (error # None /\ ~DiscoveryFailed) => \E i \in 1..Len(all_files) : Unreadable(i)
    /\ reported # None =>
          LET kept == ParsedOnly(all_files)
          IN  /\ all_annotated = EntriesOfFiles(kept)
              /\ index = build_index(EntriesOfFiles(kept))
              /\ reported[1].double_context = FinalDoubleContext(kept)
              /\ reported[1].unattributed = FinalUnattributed(kept)

C16_Witness ==
    /\ reported # None
    /\ Len(all_files) = 3
    /\ ~all_files[2].parses
    /\ reported[1].double_context # << >>
    /\ reported[1].unattributed # << >>

\* C17: the exit status is 0, 1 or 2: 2 iff discovery or the read of a file
\* failed, 0 iff the run handed two empty lists to the reporter, 1 iff it
\* handed over at least one non-empty list.
C17_ExitStatus ==
    exit_code # None =>
        /\ exit_code \in {Some(0), Some(1), Some(2)}
        /\ exit_code = Some(2) <=>
              (DiscoveryFailed \/ \E i \in 1..Len(all_files) : Unreadable(i))
        /\ exit_code = Some(0) <=>
              /\ reported # None
              /\ reported[1].double_context = << >>
              /\ reported[1].unattributed = << >>
        /\ exit_code = Some(1) <=>
              /\ reported # None
              /\ (reported[1].double_context # << >> \/ reported[1].unattributed # << >>)

C17_Witness ==
    /\ exit_code = Some(1)
    /\ reported # None
    /\ reported[1].double_context = << >>
    /\ reported[1].unattributed # << >>

\* s and t hold the same elements, each as many times
Occurrences(x, s) == Cardinality({ i \in 1..Len(s) : s[i] = x })
IsPermutation(s, t) ==
    /\ Len(s) = Len(t)
    /\ \A i \in 1..Len(s) : Occurrences(s[i], s) = Occurrences(s[i], t)

\* keys is non-decreasing in (file, line)
NonDecreasing(keys) ==
    \A i, j \in 1..Len(keys) : i < j => ~KeyLess(keys[j], keys[i])

DoubleContextKeys(s) == [i \in 1..Len(s) |-> << s[i].call_file, s[i].call_line >>]
UnattributedKeys(s) == [i \in 1..Len(s) |-> << s[i].file, s[i].line >>]

\* The lists handed to the reporter hold what the passes emitted and are sorted
C18_ReportedSorted ==
    reported # None =>
        /\ IsPermutation(reported[1].double_context, EmittedDoubleContext(all_files, index))
        /\ NonDecreasing(DoubleContextKeys(reported[1].double_context))
        /\ IsPermutation(reported[1].unattributed,
                         IF cli_unattributed = "deny"
                         THEN EmittedUnattributed(all_files) ELSE << >>)
        /\ NonDecreasing(UnattributedKeys(reported[1].unattributed))

\* The step out of a pass permutes that pass's list; later steps leave it alone
C18_SortPermutes ==
    /\ (pc = "check" /\ pc' \in {"unattributed", "report"}) =>
          IsPermutation(all_double_context, all_double_context')
    /\ (pc = "unattributed" /\ pc' = "report") =>
          IsPermutation(all_unattributed, all_unattributed')
    /\ pc \in {"unattributed", "report", "returned"} =>
          all_double_context' = all_double_context
    /\ pc \in {"report", "returned"} => all_unattributed' = all_unattributed

\* C18: each list handed to the reporter is a permutation of what its pass
\* emitted, non-decreasing in (file, line); the sort drops, duplicates and
\* alters nothing.
C18_SortedPermutation ==
    /\ []C18_ReportedSorted
    /\ [][C18_SortPermutes]_vars

\* The sort moved findings: those of src/d.rs were emitted before those of
\* src/a.rs, and line 6 of src/d.rs before line 5
C18_Witness ==
    /\ reported # None
    /\ Len(reported[1].double_context) >= 3
    /\ reported[1].double_context # EmittedDoubleContext(all_files, index)
    /\ Len(reported[1].unattributed) >= 2
    /\ reported[1].unattributed # EmittedUnattributed(all_files)

\* The enumeration orders of the file set of this run
Enumerations ==
    { q \in [1..Len(all_files) -> { all_files[i] : i \in 1..Len(all_files) }] :
        \A i, j \in 1..Len(all_files) : i # j => q[i] # q[j] }

\* C19: the lists handed to the reporter are those of a run over the same
\* file set in any other enumeration order.
C19_EnumerationOrderIndependent ==
    reported # None =>
        \A q \in Enumerations :
            /\ reported[1].double_context = FinalDoubleContext(q)
            /\ reported[1].unattributed = FinalUnattributed(q)

\* Two findings of the list share their (call file, call line)
HasTie(s) ==
    \E i, j \in 1..Len(s) :
        i < j /\ s[i].call_file = s[j].call_file /\ s[i].call_line = s[j].call_line

\* C20: the double-context list of a run is a function of the file set and
\* its enumeration: what pass 2 has emitted when its loop is over, and the
\* list after the sort, are the same sequences in every run over the same
\* files in the same order.
C20_RerunIdentical ==
    /\ (pc = "check" /\ cursor > Len(all_files)) =>
          /\ index = build_index(EntriesOfFiles(all_files))
          /\ all_double_context = EmittedDoubleContext(all_files, index)
    /\ pc \in {"unattributed", "report"} =>
          all_double_context = FinalDoubleContext(all_files)
    /\ reported # None => reported[1].double_context = FinalDoubleContext(all_files)

C20_Witness ==
    /\ reported # None
    /\ HasTie(reported[1].double_context)
    /\ Len(all_files) = 3

(***************************************************************************)
(* report.rs: the reporter.  The text form is kept as its blocks, one per  *)
(* finding, each with the values the block prints and whether the note on  *)
(* identical strings is printed, and the count of the trailing line.       *)
(***************************************************************************)
\* str::strip_prefix(p).unwrap_or(path)
strip_path(path, prefix) ==
    IF prefix = None THEN path
    ELSE IF Len(prefix[1]) <= Len(path) /\ SubSeq(path, 1, Len(prefix[1])) = prefix[1]
         THEN SubSeq(path, Len(prefix[1]) + 1, Len(path))
         ELSE path

\* str::eq_ignore_ascii_case
eq_ignore_ascii_case(a, b) ==
    /\ Len(a) = Len(b)
    /\ \A i \in 1..Len(a) : LowerChar(a[i]) = LowerChar(b[i])

\* report.rs 216-227
is_context_identical(inner, outer) ==
    IF inner = outer THEN TRUE
    ELSE IF eq_ignore_ascii_case(inner, outer) THEN TRUE
    ELSE FALSE

\* outer_context.as_deref().unwrap_or("<complex expression>")
OuterDisplay(issue) ==
    IF issue.outer_context = None THEN S_complex_expression ELSE issue.outer_context[1]

JsonLocation(file, line) == [file |-> file, line |-> line]

\* report.rs 167-186: one warning of the structured form
JsonDoubleContextWarning(issue, strip_prefix) ==
    [function_name |-> issue.function_name,
     call_site |-> JsonLocation(strip_path(issue.call_file, strip_prefix), issue.call_line),
     definition |-> JsonLocation(strip_path(issue.def_file, strip_prefix), issue.def_line),
     inner_context |-> issue.inner_context,
     outer_context |-> issue.outer_context,
     identical |-> is_context_identical(issue.inner_context, OuterDisplay(issue))]

\* report.rs 189-200: one unattributed warning of the structured form
JsonUnattributedWarning(issue, strip_prefix) ==
    [function_name |-> issue.name,
     location |-> JsonLocation(strip_path(issue.file, strip_prefix), issue.line),
     is_method |-> issue.is_method,
     is_pub |-> issue.is_pub]

\* report.rs 157-214
format_combined_json(double_context, unattributed, strip_prefix) ==
    [format |-> "json",
     double_context |->
        [warnings |-> [i \in 1..Len(double_context) |->
                          JsonDoubleContextWarning(double_context[i], strip_prefix)],
         total |-> Len(double_context)],
     unattributed |->
        [warnings |-> [i \in 1..Len(unattributed) |->
                          JsonUnattributedWarning(unattributed[i], strip_prefix)],
         total |-> Len(unattributed)]]

\* report.rs 79-110: one block of the text form
DoubleContextBlock(issue, strip_prefix) ==
    [function_name |-> issue.function_name,
     call_site |-> JsonLocation(strip_path(issue.call_file, strip_prefix), issue.call_line),
     inner_context |-> issue.inner_context,
     definition |-> JsonLocation(strip_path(issue.def_file, strip_prefix), issue.def_line),
     method |-> IF issue.is_with_context THEN ".with_context()" ELSE ".context()",
     outer_display |-> OuterDisplay(issue),
     note |-> is_context_identical(issue.inner_context, OuterDisplay(issue))]

\* report.rs 75-120
format_double_context_text(issues, strip_prefix) ==
    [blocks |-> [i \in 1..Len(issues) |-> DoubleContextBlock(issues[i], strip_prefix)],
     found |-> Len(issues),
     plural |-> IF Len(issues) = 1 THEN "" ELSE "s"]

\* report.rs 127-141: one block of the unattributed section
UnattributedBlock(issue, strip_prefix) ==
    [name |-> issue.name,
     location |-> JsonLocation(strip_path(issue.file, strip_prefix), issue.line),
     vis |-> IF issue.is_pub THEN "pub " ELSE "",
     kind |-> IF issue.is_method THEN "method" ELSE "fn"]

\* report.rs 123-151
format_unattributed_text(issues, strip_prefix) ==
    [blocks |-> [i \in 1..Len(issues) |-> UnattributedBlock(issues[i], strip_prefix)],
     found |-> Len(issues),
     plural |-> IF Len(issues) = 1 THEN "" ELSE "s"]

\* report.rs 53-73: a section is printed when its list is not empty
format_combined_text(double_context, unattributed, strip_prefix) ==
    [format |-> "text",
     double_context |-> IF double_context # << >>
                        THEN Some(format_double_context_text(double_context, strip_prefix))
                        ELSE None,
     unattributed |-> IF unattributed # << >>
                      THEN Some(format_unattributed_text(unattributed, strip_prefix))
                      ELSE None]

(***************************************************************************)
(* SpecReport: one annotated function load_config, one unit calling it     *)
(* under a combinator, the matcher's walk of that unit and the reporter on *)
(* the findings, in either output format.  The annotation's string and the *)
(* combinator's argument are drawn from the bounded sets below.            *)
(***************************************************************************)
S_load_config == << "l", "o", "a", "d", "_", "c", "o", "n", "f", "i", "g" >>
Ctx_Loading_config == << "L", "o", "a", "d", "i", "n", "g", " ", "c", "o", "n", "f", "i", "g" >>
Ctx_loading_config == << "l", "o", "a", "d", "i", "n", "g", " ", "c", "o", "n", "f", "i", "g" >>
Ctx_loading_config_dot == << "l", "o", "a", "d", "i", "n", "g", " ", "c", "o", "n", "f", "i", "g", "." >>
Ctx_loading__config == << "l", "o", "a", "d", "i", "n", "g", " ", " ", "c", "o", "n", "f", "i", "g" >>
Ctx_COMPLEX_EXPRESSION == << "<", "C", "o", "m", "p", "l", "e", "x", " ", "E", "x", "p", "r", "e", "s", "s", "i", "o", "n", ">" >>
Prefix_w == << "/", "w", "/" >>

Lit(s) == << Quote >> \o s \o << Quote >>

\* Strings an annotation may carry
ReportInnerContexts ==
    { Ctx_Loading_config, Ctx_loading_config, Ctx_loading_config_dot,
      Ctx_loading__config, S_complex_expression, Ctx_COMPLEX_EXPRESSION }

S_concat == << "c", "o", "n", "c", "a", "t" >>
S_std_format == << << "s", "t", "d" >>, S_format >>

\* Arguments the combinator may be given: string literals, an integer
\* literal, format!(..), std::format!(..) and concat!(..), an identifier, a
\* call
ReportArgs ==
    { ExprLit(Lit(c)) : c \in { Ctx_Loading_config, Ctx_loading_config,
                                Ctx_loading_config_dot, Ctx_loading__config } }
    \cup { ExprLit(Lit_42), ExprPath(<< S_x >>),
           ExprMacro(<< S_format >>, Tokens_fmt), ExprMacro(S_std_format, Tokens_fmt),
           ExprMacro(<< S_concat >>, Tokens_fmt),
           ExprCall(ExprPath(<< S_x >>), << >>) }

\* load_config().context(arg) and load_config().with_context(|| arg), a
\* closure returning a closure, and the combinator without argument
ReportNodes ==
    { ExprMethodCall(ExprCall(ExprPath(<< S_load_config >>), << >>), S_context, << a >>, 2) :
         a \in ReportArgs }
    \cup { ExprMethodCall(ExprCall(ExprPath(<< S_load_config >>), << >>), S_with_context,
                          << ExprClosure(a) >>, 2) : a \in ReportArgs }
    \cup { ExprMethodCall(ExprCall(ExprPath(<< S_load_config >>), << >>), S_context,
                          << ExprClosure(ExprClosure(ExprLit(Lit(Ctx_Loading_config)))) >>, 2),
           ExprMethodCall(ExprCall(ExprPath(<< S_load_config >>), << >>), S_context, << >>, 2) }

InitReport ==
    /\ RunIdle
    /\ \E c \in ReportInnerContexts :
          all_annotated = << AnnotatedFunction(S_load_config, File_my, 1, c, FALSE) >>
    /\ index = build_index(all_annotated)
    /\ \E e \in ReportNodes : syntax = UnitOf(e)
    /\ file_path = File_main
    /\ results = << >>
    /\ visited = FALSE

\* checker.rs 58-65: the walk of the unit
ReportCheckFile ==
    /\ ~visited
    /\ results' = CheckItems(file_path, index, syntax)
    /\ visited' = TRUE
    /\ UNCHANGED << runVars, index, syntax, file_path >>

\* main.rs 210-219: the findings go to the reporter in the chosen format
ReportFormat ==
    /\ visited
    /\ reported = None
    /\ \E format \in {"json", "text"} :
          reported' = Some(IF format = "json"
                           THEN format_combined_json(results, << >>, Some(Prefix_w))
                           ELSE format_combined_text(results, << >>, Some(Prefix_w)))
    /\ UNCHANGED << visitorVars, cli_unattributed, all_files, pc, cursor, all_annotated,
                    all_double_context, all_unattributed, error, exit_code, index >>

NextReport == ReportCheckFile \/ ReportFormat

SpecReport == InitReport /\ [][NextReport]_vars

(***************************************************************************)
(* Properties of the reporter (checked under SpecReport)                   *)
(***************************************************************************)
\* The two strings are the same, or the same up to the case of letters
EqualUpToCase(a, b) == a = b \/ to_lowercase(a) = to_lowercase(b)

\* The finding's outer_context is present and equals its inner_context,
\* exactly or up to the case of letters
InnerMatchesOuter(issue) ==
    /\ issue.outer_context # None
    /\ EqualUpToCase(issue.inner_context, issue.outer_context[1])

\* The flag the report carries for finding i: the field `identical` of the
\* structured form, the note of the text form
MarkedIdentical(i) ==
    IF reported[1].format = "json"
    THEN reported[1].double_context.warnings[i].identical
    ELSE reported[1].double_context[1].blocks[i].note

\* C21: a finding is marked identical (field `identical`, text note) iff its
\* inner_context and its outer_context are equal exactly or equal when letter
\* case is ignored; "Loading config" against "loading config" gives one
\* finding marked identical
C21_IdenticalIffEqualUpToCase ==
    reported # None =>
        /\ \A i \in 1..Len(results) : MarkedIdentical(i) <=> InnerMatchesOuter(results[i])
        /\ (/\ all_annotated[1].context_string = Ctx_Loading_config
            /\ StatementOf(syntax).args = << ExprLit(Lit(Ctx_loading_config)) >>)
           => (Len(results) = 1 /\ MarkedIdentical(1))

\* The findings whose outer_context is present are marked as C21 says
C21_IdenticalWhenOuterPresent ==
    reported # None =>
        \A i \in 1..Len(results) :
            results[i].outer_context # None =>
                (MarkedIdentical(i) <=> InnerMatchesOuter(results[i]))

\* A finding without outer_context is marked identical
C21_IdenticalWithoutOuter ==
    /\ reported # None
    /\ \E i \in 1..Len(results) : results[i].outer_context = None /\ MarkedIdentical(i)

\* The scenario: one finding, marked identical
C21_Scenario ==
    /\ reported # None
    /\ all_annotated[1].context_string = Ctx_Loading_config
    /\ StatementOf(syntax).args = << ExprLit(Lit(Ctx_loading_config)) >>
    /\ Len(results) = 1
    /\ MarkedIdentical(1)

\* The combinator's first argument, and what the argument stands for: the
\* body of a closure, the argument itself otherwise
TheArg == StatementOf(syntax).args[1]
TheArgBody == IF TheArg.kind = "Closure" THEN TheArg.sub[1] ELSE TheArg

IsStringLiteral(e) == e.kind = "Lit" /\ IsLitStr(e.text)
IsFormatMacro(e) == e.kind = "Macro" /\ e.segs # << >> /\ Last(e.segs) = S_format

\* What the extractable shapes give: the literal's value, the placeholder
\* format!(tokens)
Extraction(e) ==
    IF IsStringLiteral(e) THEN Some(LitStrValue(e.text))
    ELSE Some(S_format_open \o e.text \o << ")" >>)

\* The walk is done and the combinator has an argument: there is one finding
HasArgument ==
    /\ visited
    /\ StatementOf(syntax).args # << >>
    /\ Len(results) = 1

\* C24 as stated: a string literal gives its value, a format macro its
\* placeholder, a closure over one of these what its body gives, and every
\* other argument gives the sentinel as outer_context.
C24_SentinelForEveryOtherArgument ==
    HasArgument =>
        results[1].outer_context =
            IF IsStringLiteral(TheArgBody) \/ IsFormatMacro(TheArgBody)
            THEN Extraction(TheArgBody)
            ELSE Some(S_complex_expression)

\* C24 amended: a string literal gives its value, a format macro its
\* placeholder, a closure over one of these what its body gives; a literal
\* that is not a string and a macro that is not `format`, as the argument or
\* as the body of a closure, give no outer_context; every other argument gives
\* the sentinel; a combinator without argument gives no outer_context.
C24_NoneForOtherLiteralsAndMacros ==
    (visited /\ Len(results) = 1) =>
        results[1].outer_context =
            IF StatementOf(syntax).args = << >> THEN None
            ELSE IF IsStringLiteral(TheArgBody) \/ IsFormatMacro(TheArgBody)
                 THEN Extraction(TheArgBody)
                 ELSE IF TheArgBody.kind \in {"Lit", "Macro"} THEN None
                      ELSE Some(S_complex_expression)

\* load_config().context(42): one finding without outer_context
C24_Witness ==
    /\ HasArgument
    /\ TheArg = ExprLit(Lit_42)
    /\ results[1].outer_context = None

\* an identifier and a closure over a call give the sentinel, a closure over
\* concat!(..) gives nothing
C24_WitnessSentinel ==
    /\ HasArgument
    /\ TheArg \in { ExprPath(<< S_x >>), ExprClosure(ExprCall(ExprPath(<< S_x >>), << >>)) }
    /\ results[1].outer_context = Some(S_complex_expression)

C24_WitnessClosureMacro ==
    /\ HasArgument
    /\ TheArg = ExprClosure(ExprMacro(<< S_concat >>, Tokens_fmt))
    /\ results[1].outer_context = None

(***************************************************************************)
(* SpecVisit: the call-site matcher on units with combinators nested in    *)
(* receivers, arguments, closure bodies, blocks, nested functions, impl    *)
(* blocks and modules.  Every combinator of a unit is on a line of its own.*)
(***************************************************************************)
\* f().context("X") on line l
Leaf(f, l) ==
    ExprMethodCall(ExprCall(ExprPath(<< f >>), << >>), S_context, << ExprLit(Lit_X) >>, l)

\* Statements whose combinators are on lines l .. l + 3
DeepNodes(l) ==
    { Leaf(S_fetch, l),
      ExprMethodCall(Leaf(S_fetch, l), S_context, << ExprLit(Lit_X) >>, l + 1),
      ExprMethodCall(ExprCall(ExprPath(<< S_fetch >>), << Leaf(S_fetch, l) >>),
                     S_with_context,
                     << ExprClosure(ExprBlock(<< Leaf(S_gone, l + 1), Leaf(S_fetch, l + 2) >>)) >>,
                     l + 3),
      ExprMethodCall(ExprTry(ExprMethodCall(ExprPath(<< S_x >>), S_open,
                                            << Leaf(S_fetch, l) >>, l + 1)),
                     S_context, << ExprLit(Lit_X) >>, l + 2),
      ExprCall(ExprPath(<< S_x >>), << Leaf(S_fetch, l), Leaf(S_fetch, l + 1) >>) }

\* fn main() { a; fn x() { b } }   and
\* impl { fn x(&self) { a } } mod x { fn main() { b } }
DeepUnits ==
    { << FnItem("Fn", << >>, S_main, FALSE, FALSE, 1, None,
                << FnItem("Fn", << >>, S_x, FALSE, FALSE, 19, None, << >>, << b >>) >>,
                << a >>) >> : a \in DeepNodes(10), b \in DeepNodes(20) }
    \cup { << ItemImpl(FALSE, << FnItem("ImplFn", << >>, S_x, TRUE, FALSE, 9, None,
                                        << >>, << a >>) >>),
              ItemMod(<< >>, S_x, << FnItem("Fn", << >>, S_main, FALSE, FALSE, 19, None,
                                            << >>, << b >>) >>) >> :
             a \in DeepNodes(10), b \in DeepNodes(20) }

InitVisit ==
    /\ RunIdle
    /\ all_annotated \in SeqsUpTo(CheckerEntries, MaxEntries)
    /\ index = build_index(all_annotated)
    /\ syntax \in DeepUnits
    /\ file_path = File_main
    /\ results = << >>
    /\ visited = FALSE

\* checker.rs 58-65: the walk of the unit
VisitFileParsed ==
    /\ ~visited
    /\ results' = CheckItems(file_path, index, syntax)
    /\ visited' = TRUE
    /\ UNCHANGED << runVars, index, syntax, file_path >>

NextVisit == VisitFileParsed

SpecVisit == InitVisit /\ [][NextVisit]_vars

(***************************************************************************)
(* Properties of the walk (checked under SpecVisit)                        *)
(***************************************************************************)
\* The nodes of an expression, the expression first, then those of its
\* receiver or operands, then those of its arguments
RECURSIVE NodesOfExpr(_)
RECURSIVE NodesOfExprs(_)
NodesOfExpr(e) == << e >> \o NodesOfExprs(e.sub) \o NodesOfExprs(e.args)

NodesOfExprs(es) ==
    IF es = << >> THEN << >> ELSE NodesOfExpr(Head(es)) \o NodesOfExprs(Tail(es))

\* The expression nodes of an item: those of its body, then those of the
\* items it holds
RECURSIVE NodesOfItem(_)
RECURSIVE NodesOfItems(_)
NodesOfItem(item) == NodesOfExprs(item.body) \o NodesOfItems(item.items)

NodesOfItems(items) ==
    IF items = << >> THEN << >> ELSE NodesOfItem(Head(items)) \o NodesOfItems(Tail(items))

IsCombinatorNode(e) == e.kind = "MethodCall" /\ e.segs[1] \in {S_context, S_with_context}

\* The context / with_context nodes of the unit
CombinatorNodes == SelectSeq(NodesOfItems(syntax), IsCombinatorNode)

\* The findings of one node taken alone, and of the nodes of a list one
\* after the other
FindingsOf(node) == check_context_call(file_path, index, node)

RECURSIVE FindingsOfAll(_)
FindingsOfAll(nodes) ==
    IF nodes = << >> THEN << >> ELSE FindingsOf(Head(nodes)) \o FindingsOfAll(Tail(nodes))

\* C26: the findings of a file are the concatenation, over the context /
\* with_context nodes at every depth, of each node's own findings: each node
\* is evaluated once (as many findings on its line as it has alone), and a
\* node with findings does not hide the nodes nested in it.
C26_EveryNodeEvaluatedOnce ==
    visited =>
        LET nodes == CombinatorNodes
        IN  /\ results = FindingsOfAll(nodes)
            /\ \A i \in 1..Len(nodes) :
                  Len(SelectSeq(results, LAMBDA r : r.call_line = nodes[i].line))
                     = Len(FindingsOf(nodes[i]))

\* A combinator with findings holds, in a closure's block, another with
\* findings, and a nested function holds a third
C26_Witness ==
    /\ visited
    /\ \A i, j \in 1..Len(CombinatorNodes) :
          CombinatorNodes[i].line = CombinatorNodes[j].line => i = j
    /\ \E i \in 1..Len(results) : results[i].call_line = 13
    /\ \E i \in 1..Len(results) : results[i].call_line = 12
    /\ \E i \in 1..Len(results) : results[i].call_line = 10
    /\ \E i \in 1..Len(results) : results[i].call_line >= 20
    /\ syntax[1].items # << >>
    /\ syntax[1].items[1].kind = "Fn"

(***************************************************************************)
(* SpecPasses: the index builder and the unattributed detector on the same *)
(* unit: an optional `use anyhow::Result;`, one function-like declaration  *)
(* (a free function, a method of an inherent impl, a trait's default       *)
(* method) on line 7 and an optional unannotated function on line 9.       *)
(***************************************************************************)
Attr_context_path == Attribute(<< S_context >>, "Path", << >>)
Attr_fn_error_context ==
    Attribute(<< S_fn_error_context, S_context >>, "List", << Token("Literal", Lit_Del) >>)
Attr_other_context ==
    Attribute(<< S_other, S_context >>, "List", << Token("Literal", Lit_Ctx) >>)

PassAttrs ==
    { Attr_context, Attr_context_path, Attr_fn_error_context, Attr_other_context, Attr_test }

PassDecls ==
    { FnItem(k, attrs, S_fetch, r, FALSE, 7, out, << >>, << >>) :
        k \in FnKinds, attrs \in SeqsUpTo(PassAttrs, MaxAttrs), r \in BOOLEAN,
        out \in {None, Some(Type_anyhow_Result), Some(Type_Result)} }

PassUnits ==
    { imports \o UnitOfDecl(d) \o after :
        imports \in {<< >>, << Use_anyhow_Result >>},
        d \in PassDecls,
        after \in {<< >>, << AfterDecl >>} }

InitPasses ==
    /\ cli_unattributed = "deny"
    /\ all_files = << >>
    /\ pc = "collect"
    /\ cursor = 0
    /\ all_annotated = << >>
    /\ all_double_context = << >>
    /\ all_unattributed = << >>
    /\ error = None
    /\ reported = None
    /\ exit_code = None
    /\ index = EmptyIndex
    /\ syntax \in PassUnits
    /\ file_path = File_my
    /\ results = << >>
    /\ visited = FALSE

\* collector.rs 42-48: the index builder's walk of the unit
PassCollect ==
    /\ pc = "collect"
    /\ all_annotated' = CollectItems(file_path, syntax)
    /\ pc' = "unattributed"
    /\ UNCHANGED << cli_unattributed, all_files, cursor, all_double_context, all_unattributed,
                    error, reported, exit_code, index, visitorVars >>

\* unattributed.rs 41-57: the unattributed detector's walk of the unit
PassUnattributed ==
    /\ pc = "unattributed"
    /\ results' = unattributed_check_parsed(file_path, syntax)
    /\ visited' = TRUE
    /\ pc' = "returned"
    /\ UNCHANGED << cli_unattributed, all_files, cursor, all_annotated, all_double_context,
                    all_unattributed, error, reported, exit_code, index, syntax, file_path >>

NextPasses == PassCollect \/ PassUnattributed

SpecPasses == InitPasses /\ [][NextPasses]_vars

(***************************************************************************)
(* Properties of the two passes on one unit (checked under SpecPasses)     *)
(***************************************************************************)
\* The declaration on line 7
PassItem == IF syntax[1].kind = "Use" THEN syntax[2] ELSE syntax[1]
PassDecl == IF PassItem.kind \in FnKinds THEN PassItem ELSE PassItem.items[1]

PassHasImport == syntax[1] = Use_anyhow_Result

\* The declaration returns anyhow::Result<T>, or Result<T> under
\* `use anyhow::Result;`
PassReturnsRecognizedShape ==
    \/ PassDecl.output = Some(Type_anyhow_Result)
    \/ (PassDecl.output = Some(Type_Result) /\ PassHasImport)

\* How many findings, how many entries name the declaration on line 7
PassFindings == Cardinality({ i \in 1..Len(results) : results[i].line = PassDecl.line })
PassEntries ==
    Cardinality({ i \in 1..Len(all_annotated) : all_annotated[i].line = PassDecl.line })

\* C28: the unattributed detector looks at the kinds of declaration the
\* index builder looks at: an unannotated declaration of recognized shape,
\* without test attribute, is recorded once, as a free function, as a method
\* of an inherent impl and as a default method of a trait.
C28_SameKindsAsIndexBuilder ==
    ( /\ pc = "returned"
      /\ PassDecl.attrs = << >>
      /\ PassReturnsRecognizedShape )
    => PassFindings = 1

\* The same for free functions and methods of inherent impls only
C28_FreeFunctionsAndImplMethods ==
    ( /\ pc = "returned"
      /\ PassDecl.kind \in {"Fn", "ImplFn"}
      /\ PassDecl.attrs = << >>
      /\ PassReturnsRecognizedShape )
    => PassFindings = 1

\* A trait's default method fn fetch(&self) -> anyhow::Result<T>, unannotated,
\* is not recorded, while the same method with #[context("Ctx")] is indexed
C28_TraitMethodNotRecorded ==
    /\ pc = "returned"
    /\ PassDecl.kind = "TraitFn"
    /\ PassDecl.attrs = << >>
    /\ PassDecl.output = Some(Type_anyhow_Result)
    /\ PassFindings = 0

C28_TraitMethodIndexed ==
    /\ pc = "returned"
    /\ PassDecl.kind = "TraitFn"
    /\ PassDecl.attrs = << Attr_context >>
    /\ PassEntries = 1

\* The (file, line, name) triples of the index entries and of the findings
Triples(s) == { << s[i].file, s[i].line, s[i].name >> : i \in 1..Len(s) }

\* C29: no declaration is both indexed and reported: an index entry comes
\* from a declaration carrying the marker, a declaration carrying the marker
\* (with or without a string) has no finding, and the (file, line, name) of
\* entries and of findings are disjoint.  Declarations of a unit are on
\* different lines.
C29_IndexedNeverUnattributed ==
    /\ Triples(all_annotated) \cap Triples(results) = {}
    /\ PassEntries > 0 => HasMarker(PassDecl)
    /\ HasMarker(PassDecl) => PassFindings = 0

\* An annotated function of recognized shape is indexed and not reported,
\* the unannotated one after it is reported and not indexed
C29_Witness ==
    /\ pc = "returned"
    /\ HasMarker(PassDecl)
    /\ PassReturnsRecognizedShape
    /\ PassEntries = 1
    /\ PassFindings = 0
    /\ Len(results) = 1
    /\ results[1].name = S_after

\* A marker without string: neither indexed nor reported
C29_WitnessNoString ==
    /\ pc = "returned"
    /\ PassDecl.attrs = << Attr_context_path >>
    /\ PassDecl.kind = "Fn"
    /\ PassReturnsRecognizedShape
    /\ PassEntries = 0
    /\ PassFindings = 0

(***************************************************************************)
(* Properties of the call-site matcher (checked under SpecChecker)         *)
(***************************************************************************)
\* The combinator statement of the unit that was walked
TheNode == StatementOf(syntax)
TheReceiver == TheNode.sub[1]

\* Whether a context / with_context call occurs in e, at any depth
RECURSIVE HasCombinator(_)
HasCombinator(e) ==
    \/ (e.kind = "MethodCall" /\ e.segs[1] \in {S_context, S_with_context})
    \/ \E i \in 1..Len(e.sub) : HasCombinator(e.sub[i])
    \/ \E i \in 1..Len(e.args) : HasCombinator(e.args[i])

\* The statement is one context / with_context call and nothing nested in its
\* receiver or arguments is another one: results are that call's findings
IsSingleCombinator ==
    /\ visited
    /\ TheNode.segs[1] \in {S_context, S_with_context}
    /\ ~HasCombinator(TheReceiver)
    /\ \A i \in 1..Len(TheNode.args) : ~HasCombinator(TheNode.args[i])

\* The receiver with its .await, ( ) and ? wrappers removed
RECURSIVE Unwrapped(_)
Unwrapped(e) == IF e.kind \in {"Await", "Paren", "Try"} THEN Unwrapped(e.sub[1]) ELSE e

\* The reduced receiver is a direct call of a path: its segments
IsPathCall(e) == e.kind = "Call" /\ e.sub[1].kind = "Path"
CallSegments(e) == e.sub[1].segs

\* Finding r reports index entry e
Reports(r, e) ==
    /\ r.function_name = e.name
    /\ r.def_file = e.file
    /\ r.def_line = e.line
    /\ r.inner_context = e.context_string

\* The statement is f(..).context("X"), f a single segment that is indexed
IsUnqualifiedContextX ==
    /\ IsSingleCombinator
    /\ TheNode.segs[1] = S_context
    /\ TheNode.args = << ExprLit(Lit_X) >>
    /\ IsPathCall(TheReceiver)
    /\ Len(CallSegments(TheReceiver)) = 1
    /\ CallSegments(TheReceiver)[1] \in DOMAIN index

\* C2: f(..).context("X"), f unqualified and indexed: no finding when f is
\* denylisted; otherwise one finding per index entry under f, in the order of
\* the entries, each with outer_context = Some("X").
C2_UnqualifiedCall ==
    IsUnqualifiedContextX =>
        LET f == CallSegments(TheReceiver)[1]
        IN  IF f \in CommonFunctionNames
            THEN results = << >>
            ELSE /\ Len(results) = Len(index[f])
                 /\ \A i \in 1..Len(results) :
                       /\ Reports(results[i], index[f][i])
                       /\ results[i].outer_context = Some(<< "X" >>)

C2_Witness ==
    /\ IsUnqualifiedContextX
    /\ CallSegments(TheReceiver)[1] = S_fetch
    /\ Len(index[S_fetch]) = 2
    /\ Len(results) = 2

\* The segments of a call that qualify it: all but the last, without
\* self, super and crate
QualifyingSegments(segs) ==
    { segs[i] : i \in { j \in 1..(Len(segs) - 1) : segs[j] \notin {S_self, S_super, S_crate} } }

\* C3: a call of a denylisted name is matched with an entry only if one of
\* its qualifying segments occurs, ignoring case, in the entry's defining
\* file; a call qualified by self/super/crate alone has no such segment and
\* is matched with nothing.
C3_DenylistedNeedsPathMatch ==
    ( /\ IsSingleCombinator
      /\ IsPathCall(Unwrapped(TheReceiver))
      /\ Last(CallSegments(Unwrapped(TheReceiver))) \in CommonFunctionNames )
    => \A i \in 1..Len(results) :
          \E seg \in QualifyingSegments(CallSegments(Unwrapped(TheReceiver))) :
              contains(to_lowercase(results[i].def_file), to_lowercase(seg))

\* The statement's reduced receiver is a method call recv.m(..)
IsMethodReceiver ==
    /\ IsSingleCombinator
    /\ Unwrapped(TheReceiver).kind = "MethodCall"

\* The entries of the index, under any name, that finding r may report
EntriesReported(r) ==
    IF r.function_name \in DOMAIN index
    THEN { index[r.function_name][i] : i \in
             { j \in 1..Len(index[r.function_name]) : Reports(r, index[r.function_name][j]) } }
    ELSE {}

\* C4: a combinator over a method call recv.m(..) reports no entry whose
\* is_method flag is false, whatever the name m.
C4_MethodNeverMatchesFreeFunction ==
    IsMethodReceiver =>
        \A i \in 1..Len(results) : \A e \in EntriesReported(results[i]) : e.is_method

C4_Witness ==
    /\ IsMethodReceiver
    /\ Unwrapped(TheReceiver).segs[1] = S_open
    /\ S_open \in DOMAIN index
    /\ \E i \in 1..Len(index[S_open]) : ~index[S_open][i].is_method
    /\ \E i \in 1..Len(index[S_open]) : index[S_open][i].is_method
    /\ Len(results) = 1

\* The statement's reduced receiver is a direct call of a path
IsFreeFunctionReceiver ==
    /\ IsSingleCombinator
    /\ IsPathCall(Unwrapped(TheReceiver))

\* C5 as stated: a combinator over a direct call of a path reports no entry
\* whose is_method flag is true.
C5_FreeFunctionNeverMatchesMethod ==
    IsFreeFunctionReceiver =>
        \A i \in 1..Len(results) : \A e \in EntriesReported(results[i]) : ~e.is_method

\* Entry e of the index is reported by some finding
IsReported(e) == \E i \in 1..Len(results) : Reports(results[i], e)

\* C5 amended: for a direct call of a path, is_method is not consulted: two
\* entries of one name and one defining file, one a method and one not, are
\* reported together or not at all.
C5_FreeFunctionIgnoresIsMethod ==
    IsFreeFunctionReceiver =>
        \A n \in DOMAIN index : \A i, j \in 1..Len(index[n]) :
            (index[n][i].file = index[n][j].file) =>
                (IsReported(index[n][i]) <=> IsReported(index[n][j]))

C5_Witness ==
    /\ IsFreeFunctionReceiver
    /\ CallSegments(Unwrapped(TheReceiver)) = << S_fetch >>
    /\ S_fetch \in DOMAIN index
    /\ Len(index[S_fetch]) = 2
    /\ index[S_fetch][1].is_method
    /\ ~index[S_fetch][2].is_method
    /\ Len(results) = 2

\* C6: a combinator over a wrapped expression has the callee descriptor and
\* the findings of the same combinator over the expression with every
\* .await, ( ) and ? around it removed.
C6_WrappersTransparent ==
    IsSingleCombinator =>
        /\ find_callee_in_receiver(TheReceiver)
             = find_callee_in_receiver(Unwrapped(TheReceiver))
        /\ results = check_context_call(file_path, index,
                                        [TheNode EXCEPT !.sub = << Unwrapped(TheReceiver) >>])

C6_Witness ==
    /\ IsSingleCombinator
    /\ TheReceiver.kind = "Try"
    /\ TheReceiver.sub[1].kind = "Await"
    /\ IsPathCall(Unwrapped(TheReceiver))
    /\ Len(results) = 2

\* The callee descriptor the statement's receiver reduces to
TheCallee == find_callee_in_receiver(TheReceiver)

\* C7: the findings of one combinator are as many as the entries under the
\* callee's name that pass the filter, each judged alone; and the index holds
\* under each name every collected entry of that name, in collection order.
C7_OneFindingPerSurvivor ==
    /\ \A n \in DOMAIN index :
          index[n] = SelectSeq(all_annotated, LAMBDA e : e.name = n)
    /\ \A i \in 1..Len(all_annotated) : all_annotated[i].name \in DOMAIN index
    /\ (IsSingleCombinator /\ TheCallee # None /\ TheCallee[1].name \in DOMAIN index) =>
          LET entries == index[TheCallee[1].name]
              survivors == { i \in 1..Len(entries) :
                               is_plausible_match(TheCallee[1], entries[i]) }
          IN  /\ Len(results) = Cardinality(survivors)
              /\ \A i \in survivors : IsReported(entries[i])

C7_Witness ==
    /\ IsSingleCombinator
    /\ TheCallee # None
    /\ TheCallee[1].name = S_open
    /\ S_open \in DOMAIN index
    /\ Len(index[S_open]) = 2
    /\ index[S_open][1] = index[S_open][2]
    /\ Len(results) = 2

\* The lines of the context / with_context method tokens in e
RECURSIVE CombinatorLines(_)
CombinatorLines(e) ==
    (IF e.kind = "MethodCall" /\ e.segs[1] \in {S_context, S_with_context}
     THEN {e.line} ELSE {})
    \cup UNION { CombinatorLines(e.sub[i]) : i \in 1..Len(e.sub) }
    \cup UNION { CombinatorLines(e.args[i]) : i \in 1..Len(e.args) }

\* C8: every finding names a key of the index and an entry under it (defining
\* file, line and template), the file being checked, and the line of a
\* context / with_context method token of that file.
C8_FindingWellFormed ==
    visited =>
        \A i \in 1..Len(results) :
            /\ results[i].function_name \in DOMAIN index
            /\ EntriesReported(results[i]) # {}
            /\ results[i].call_file = file_path
            /\ results[i].call_line \in CombinatorLines(TheNode)

C8_Witness ==
    /\ visited
    /\ \E i, j \in 1..Len(results) : results[i].call_line # results[j].call_line
    /\ \E i \in 1..Len(results) : results[i].def_file # file_path

\* The statement is one combinator over a direct call, possibly wrapped, of a
\* path whose last segment is not denylisted
IsDistinctiveCall ==
    /\ IsFreeFunctionReceiver
    /\ Last(CallSegments(Unwrapped(TheReceiver))) \notin CommonFunctionNames

\* The findings are one per entry the index holds under name f, in the order
\* of the entries; none when the index holds nothing under f
ReportsEveryEntryOf(f) ==
    IF f \in DOMAIN index
    THEN /\ Len(results) = Len(index[f])
         /\ \A i \in 1..Len(results) : Reports(results[i], index[f][i])
    ELSE results = << >>

C22_WitnessPathMatch ==
    /\ IsDistinctiveCall
    /\ CallSegments(Unwrapped(TheReceiver)) = << S_my, S_fetch >>
    /\ S_fetch \in DOMAIN index
    /\ Len(results) = Len(index[S_fetch])
    /\ \A i \in 1..Len(results) : PathMatches(<< S_my >>, results[i].def_file)

C22_WitnessUnqualified ==
    /\ IsDistinctiveCall
    /\ CallSegments(Unwrapped(TheReceiver)) = << S_fetch >>
    /\ S_fetch \in DOMAIN index
    /\ Len(results) = Len(index[S_fetch])

\* The statement is a combinator whose reduced receiver is a method call
IsCombinatorOverMethodCall ==
    /\ visited
    /\ TheNode.segs[1] \in {S_context, S_with_context}
    /\ Unwrapped(TheReceiver).kind = "MethodCall"

\* The findings of the statement's own combinator: those on its line
OuterFindings == SelectSeq(results, LAMBDA r : r.call_line = TheNode.line)

\* C25: a combinator over a method call e.m(..) has the descriptor Method{m}
\* and e is not inspected: its findings, if any, are for m, and there are
\* none when m is not indexed, whatever e calls; in f().context(a).context(b)
\* the outer combinator has no finding for f.
C25_OneLevelOfCall ==
    IsCombinatorOverMethodCall =>
        LET m == Unwrapped(TheReceiver).segs[1]
        IN  /\ find_callee_in_receiver(TheReceiver) = Some(Method(m))
            /\ m \notin DOMAIN index => OuterFindings = << >>
            /\ \A i \in 1..Len(OuterFindings) : OuterFindings[i].function_name = m

\* fetch().gone().context("X") with fetch indexed: no finding
C25_Witness ==
    /\ IsCombinatorOverMethodCall
    /\ Unwrapped(TheReceiver).segs[1] = S_gone
    /\ IsPathCall(Unwrapped(TheReceiver).sub[1])
    /\ CallSegments(Unwrapped(TheReceiver).sub[1]) = << S_fetch >>
    /\ S_fetch \in DOMAIN index
    /\ results = << >>

\* fetch().context("X").context("X") with fetch indexed: the inner combinator
\* alone has findings
C25_WitnessChain ==
    /\ IsCombinatorOverMethodCall
    /\ TheNode.segs[1] = S_context
    /\ TheReceiver.kind = "MethodCall"
    /\ TheReceiver.segs[1] = S_context
    /\ IsPathCall(TheReceiver.sub[1])
    /\ CallSegments(TheReceiver.sub[1]) = << S_fetch >>
    /\ S_fetch \in DOMAIN index
    /\ OuterFindings = << >>
    /\ Len(results) = Len(index[S_fetch])
    /\ \A i \in 1..Len(results) : results[i].call_line = TheReceiver.line

\* The entries under name m that are methods, in index order
MethodEntries(m) ==
    IF m \in DOMAIN index THEN SelectSeq(index[m], LAMBDA e : e.is_method) ELSE << >>

\* C30: a combinator over a method call recv.m(..) has one finding for every
\* entry under m whose is_method flag is true, in index order, whether or not
\* m is denylisted and whatever file defines the entry.
C30_MethodCallIgnoresDenylist ==
    IsMethodReceiver =>
        LET entries == MethodEntries(Unwrapped(TheReceiver).segs[1])
        IN  /\ Len(results) = Len(entries)
            /\ \A i \in 1..Len(results) : Reports(results[i], entries[i])

\* x.open().context("X") with open, a denylisted name, indexed as a method of
\* two files: two findings
C30_Witness ==
    /\ IsMethodReceiver
    /\ Unwrapped(TheReceiver).segs[1] = S_open
    /\ S_open \in CommonFunctionNames
    /\ Len(results) = 2
    /\ results[1].def_file # results[2].def_file

====
